---- MODULE Spec2Model ----
(***************************************************************************)
(* A model of the resumable entity-clustering pipeline of the backend:     *)
(*   app/utils/progress_manager.py      ProgressManager (ledger + blobs)   *)
(*   app/services/data_processor/processor.py   DataProcessor              *)
(*   app/services/clustering/optimized_clustering.py                       *)
(*                                      OptimizedClusteringService         *)
(*   app/main.py                        startup_event                      *)
(*   app/api/endpoints.py               POST /process-data, POST /cluster  *)
(*   app/services/clustering/clustering.py   ClusteringService             *)
(*   app/scripts/clear_clustering_data.py    clear_cache_files             *)
(*                                                                         *)
(* The specifications share the state and the definitions:                 *)
(*   Spec          one service process calling cluster_servers on a        *)
(*                 corpus, with the clustering cache cleared in between    *)
(*   SpecResume    the same, across process restarts                       *)
(*   SpecPhase1    cluster_servers on corpora whose title similarity is    *)
(*                 not transitive                                          *)
(*   SpecPM        the ProgressManager operations on a ledger file and     *)
(*                 blob files in every condition the file system allows    *)
(*   SpecReset     reset_progress on whatever the cache directory holds    *)
(*   SpecSimilar   get_similar_servers on the lists process_data returns   *)
(*   SpecPipeline  startup_event -> load_data -> process_data ->           *)
(*                 cluster_servers with crashes between file writes and    *)
(*                 blob files damaged while the process is down            *)
(*   SpecRecovery  the pipeline under crashes alone, with fair scheduling  *)
(*   SpecBatches   cluster_servers on corpora of two Phase-2 batches,      *)
(*                 with batch tasks that raise; SpecBatchesFair is the     *)
(*                 same with a coordinator that keeps running              *)
(*   SpecFit       cluster_servers on corpora a vectorizer cannot fit      *)
(*   SpecSummary   the endpoints /process-data and /cluster with the       *)
(*                 cached visualization and summaries blobs                *)
(*   SpecTags      the common_tags of one cluster summary                  *)
(*   SpecNames     the cluster names of ClusteringService                  *)
(*   SpecLedger    the ledger under reads that fail transiently            *)
(*   SpecClear     the pipeline with the cache-clearing script             *)
(***************************************************************************)
EXTENDS Integers, Naturals, Sequences, FiniteSets, TLC

(***************************************************************************)
(* Bounds of the model.                                                    *)
(***************************************************************************)
\* number of records of the corpus handed to cluster_servers
MaxServers == 5
\* largest processed/total count passed to update_progress in SpecPM
MaxCount == 1
\* last tick of the wall clock behind datetime.now()
MaxClock == 2
\* number of raw records in the data file of SpecPipeline
MaxRaw == 3
\* number of process crashes in one behaviour of the pipeline
MaxCrashes == 2
\* number of blob files the environment damages in SpecPipeline
MaxFaults == 1
\* number of records of the list handed to get_similar_servers
MaxQueried == 4
\* number of records of the corpus of SpecPhase1 and of SpecFit
MaxChained == 4
\* number of members of the cluster summarised in SpecTags
MaxMembers == 3
\* number of clusters named by get_cluster_summary in SpecNames
MaxClusters == 4

(***************************************************************************)
(* Program constants.                                                      *)
(***************************************************************************)
\* Optional[...] = None (cluster_id, last_updated)
None == -1
\* similarity_threshold = 0.7, in percent
similarity_threshold == 70
\* the weights 0.6 and 0.4 of the combined score, in tenths
title_weight == 6
desc_weight == 4

\* batch_size = 100 in the source; the model scales it with the corpus so
\* that one batch holds several records and a second batch exists
batch_size == MaxServers - 1

\* self.next_cluster_id only grows while an instance lives; the model lets
\* an instance be called while a whole run still fits under this cap
MaxClusterId == 2 * MaxServers

\* "if processed_count % 100 == 0" in process_data, scaled likewise
save_every == MaxRaw - 1

STAGES ==
    <<"data_loading", "basic_processing", "feature_extraction",
      "metrics_calculation", "clustering", "evaluation">>

Range(s) == {s[i] : i \in DOMAIN s}

(***************************************************************************)
(* Text model.  A title or description is one of a few texts; text 0 holds *)
(* no vocabulary token (empty, or stop words only), so its TF-IDF vector   *)
(* is the zero vector.  TitleSim and DescSim are the cosine matrices       *)
(* sklearn returns for the fitted vectors, in percent: symmetric, 100      *)
(* between equal non-zero vectors, 0 whenever a zero vector is involved.   *)
(***************************************************************************)
TitleSim(a, b) ==
    IF a = 0 \/ b = 0 THEN 0
    ELSE IF a = b THEN 100
    ELSE IF {a, b} = {1, 2} THEN 80
    ELSE IF {a, b} = {2, 3} THEN 60
    ELSE IF {a, b} = {2, 4} THEN 75
    ELSE IF {a, b} = {4, 5} THEN 75
    ELSE 0

DescSim(a, b) ==
    IF a = 0 \/ b = 0 THEN 0
    ELSE IF a = b THEN 100
    ELSE 50

\* the words of each title, as title.split() sees them
TitleWords(t) ==
    CASE t = 0 -> <<"The">>
      [] t = 1 -> <<"Binance", "Server">>
      [] t = 2 -> <<"Binance", "Weather">>
      [] t = 3 -> <<"Weather", "API">>
      [] t = 4 -> <<"Weather", "Forecast">>
      [] OTHER -> <<"Forecast", "Maps">>

\* the (title, description) pairs a record of the corpus is drawn from
Profiles ==
    { [title |-> 1, description |-> 1],
      [title |-> 2, description |-> 1],
      [title |-> 3, description |-> 1],
      [title |-> 1, description |-> 2],
      [title |-> 0, description |-> 1] }

common_suffixes ==
    {"server", "mcp", "helper", "tools", "api", "service",
     "platform", "framework", "library", "sdk", "client"}

Lower(w) ==
    CASE w = "The" -> "the"
      [] w = "Binance" -> "binance"
      [] w = "Server" -> "server"
      [] w = "Weather" -> "weather"
      [] w = "API" -> "api"
      [] OTHER -> w

\* extract_entity_name(title).lower(): a title ending in " <suffix>" loses
\* the suffix; otherwise the first word of several, or the whole title
extract_entity_name(t) ==
    LET words == TitleWords(t)
        n == Len(words)
    IN  IF n > 1 /\ Lower(words[n]) \in common_suffixes
        THEN [i \in 1..(n - 1) |-> Lower(words[i])]
        ELSE <<Lower(words[1])>>

(***************************************************************************)
(* State.                                                                  *)
(***************************************************************************)
VARIABLES
    servers,          \* processed_servers: the ServerMetrics list
    clusters,         \* self.clusters: server_id -> cluster id
    cluster_data,     \* self.cluster_data: key -> {entity_name, servers}
    next_cluster_id,  \* self.next_cluster_id
    fitted,           \* whether the two vectorizers of the instance are fitted
    clusters_map,     \* the local clusters_map of a running cluster_servers
    futures,          \* batch futures submitted and not yet collected
    completed,        \* futures whose task has ended in the pool, and how
    pc,               \* position of the service process
    result,           \* how the last cluster_servers call ended
    did,              \* what the current/last cluster_servers call executed
    computed,         \* the assignment produced by the last uncached run
    ledger,           \* processing_progress.json
    blobs,            \* intermediate/<stage>_result.json
    now,              \* the wall clock
    ret,              \* the last ProgressManager call and what it returned
    data_file,        \* the raw data file read by load_data
    raw_data,         \* DataProcessor.raw_data
    processed,        \* the local processed_servers list of process_data
    raw_pos,          \* position of process_data in raw_data
    processed_count,  \* the local processed_count of process_data
    verified,         \* what verify_cache_integrity returned at startup
    crashes,          \* process crashes so far
    faults,           \* blob files damaged by the environment so far
    interrupted       \* a crash cut cluster_servers short before its blob

vars ==
    <<servers, clusters, cluster_data, next_cluster_id, fitted, clusters_map,
      futures, completed, pc, result, did, computed, ledger, blobs, now,
      ret, data_file, raw_data, processed, raw_pos, processed_count, verified,
      crashes, faults, interrupted>>

serviceVars == <<clusters, cluster_data, next_cluster_id, fitted>>
runVars == <<clusters_map, futures, completed>>
fileVars == <<ledger, blobs>>
processorVars == <<data_file, raw_data, processed, raw_pos, processed_count>>
pipelineVars == <<verified, crashes, faults, interrupted>>

(***************************************************************************)
(* ProgressManager: the ledger file and the blob files.                    *)
(*                                                                         *)
(* A file is a record [kind, data]: kind "absent" (no file), "unreadable"  *)
(* (open() raises), "corrupt" (json.load raises), "ok" (parseable JSON).   *)
(* The ledger has one more kind, "nofield": parseable JSON without the     *)
(* completed_stages field.                                                 *)
(***************************************************************************)
InitialProgress ==
    [current_stage |-> "None", completed_stages |-> <<>>,
     last_updated |-> None, processed_count |-> 0, total_count |-> 0]

NoFile == [kind |-> "absent", data |-> <<>>]
BadFile(k) == [kind |-> k, data |-> <<>>]
File(d) == [kind |-> "ok", data |-> d]

BlobNames ==
    {"data_loading", "basic_processing", "metrics_calculation", "clustering",
     "vectorizers", "visualization", "summaries"}

\* the try block of get_progress: the value it returns, or the exception
\* raised inside it
ReadLedger(l) ==
    CASE l.kind = "absent" ->      \* not os.path.exists: the initial state
            [exception |-> FALSE, value |-> InitialProgress]
      [] l.kind = "unreadable" ->  \* open raises
            [exception |-> TRUE, value |-> InitialProgress]
      [] l.kind = "corrupt" ->     \* json.load raises
            [exception |-> TRUE, value |-> InitialProgress]
      [] l.kind = "nofield" ->     \* progress['completed_stages'] raises
            [exception |-> TRUE, value |-> InitialProgress]
      [] OTHER ->
            [exception |-> FALSE, value |-> l.data]

\* get_progress without its except clause: the exception leaves the method
get_progress_uncaught(l) ==
    [raised |-> ReadLedger(l).exception, value |-> ReadLedger(l).value]

\* get_progress: "except Exception" returns the initial state, so nothing
\* leaves the method
get_progress(l) ==
    LET r == ReadLedger(l)
    IN  IF r.exception
        THEN [raised |-> FALSE, value |-> InitialProgress]
        ELSE [raised |-> FALSE, value |-> r.value]

\* update_progress without the test of completed_stages
update_progress_unguarded(l, stage, processed_n, total_n, t) ==
    File([get_progress(l).value EXCEPT !.current_stage = stage,
                                       !.processed_count = processed_n,
                                       !.total_count = total_n,
                                       !.last_updated = t])

\* update_progress: the ledger file after the call; an exception of the
\* body is caught and logged
update_progress(l, stage, processed_n, total_n, t) ==
    LET got == get_progress(l)
        progress == got.value
    IN  IF got.raised THEN l
        ELSE IF stage \notin Range(progress.completed_stages)
        THEN File([progress EXCEPT !.current_stage = stage,
                                   !.processed_count = processed_n,
                                   !.total_count = total_n,
                                   !.last_updated = t])
        ELSE l

\* complete_stage without the test of completed_stages
complete_stage_unguarded(l, stage, t) ==
    File([get_progress(l).value EXCEPT
            !.completed_stages = Append(@, stage),
            !.current_stage = "None",
            !.last_updated = t])

\* complete_stage: the ledger file after the call; an exception of the
\* body is caught and logged
complete_stage(l, stage, t) ==
    LET got == get_progress(l)
        progress == got.value
    IN  IF got.raised THEN l
        ELSE IF stage \notin Range(progress.completed_stages)
        THEN File([progress EXCEPT
                     !.completed_stages = Append(progress.completed_stages, stage),
                     !.current_stage = "None",
                     !.last_updated = t])
        ELSE l

\* a key of self.cluster_data: an int in memory, a string once the dict
\* went through json.dump / json.load
IntKey(n) == <<"int", n>>
StrKey(n) == <<"str", n>>

\* json.dump of a dict with int keys writes them as strings; of two keys
\* that print alike json.load keeps the one written last (the int key,
\* added after a restore)
JsonKeys(cd) ==
    [k \in {StrKey(key[2]) : key \in DOMAIN cd} |->
        IF IntKey(k[2]) \in DOMAIN cd THEN cd[IntKey(k[2])] ELSE cd[StrKey(k[2])]]

\* json.dump followed by json.load, on the payloads the program saves: the
\* 'clustering' payload holds a dict keyed by int (cluster_data); lists,
\* strings, numbers and dicts keyed by str come back as they were
JsonRoundTrip(stage, data) ==
    IF stage = "clustering"
    THEN [data EXCEPT !.cluster_data = JsonKeys(@)]
    ELSE data

\* save_intermediate_result that writes no file
save_nothing(b, stage, data) == b

\* save_intermediate_result: the blob files after the call; a file holds
\* what json.load will read from it
save_intermediate_result(b, stage, data) ==
    [b EXCEPT ![stage] = File(JsonRoundTrip(stage, data))]

\* load_intermediate_result: the parsed blob, or absent
Loaded(f) == f.kind = "ok"
load_intermediate_result(b, stage) ==
    IF b[stage].kind = "ok" THEN b[stage] ELSE NoFile

\* verify_cache_integrity without the json.load of each blob
verify_files_exist(l, b) ==
    /\ ~get_progress(l).raised
    /\ \A s \in Range(get_progress(l).value.completed_stages) :
          b[s].kind # "absent"

\* verify_cache_integrity whose loop returns True after its first stage
verify_first_stage(l, b) ==
    LET completed_stages == get_progress(l).value.completed_stages
    IN  completed_stages # <<>> => b[completed_stages[1]].kind = "ok"

\* verify_cache_integrity: every completed stage has a blob that exists
\* and parses; any exception of the body gives False
verify_cache_integrity(l, b) ==
    LET got == get_progress(l)
        completed_stages == got.value.completed_stages
    IN  /\ ~got.raised
        /\ \A i \in DOMAIN completed_stages :
              /\ b[completed_stages[i]].kind # "absent"
              /\ b[completed_stages[i]].kind = "ok"

\* reset_progress: the ledger is removed, then every *_result.json
reset_ledger(l) == NoFile
\* reset_progress that removes only the blobs of the ledger's stages
reset_stage_blobs(b) ==
    [s \in DOMAIN b |-> IF s \in Range(STAGES) THEN NoFile ELSE b[s]]
reset_blobs(b) == [s \in DOMAIN b |-> NoFile]

(***************************************************************************)
(* OptimizedClusteringService: the pure parts of cluster_servers.          *)
(* Records are indexed from 1 (the source indexes from 0).                 *)
(***************************************************************************)
\* TfidfVectorizer.fit raises ValueError("empty vocabulary") when no
\* document of the corpus holds a token
FitRaises(S) ==
    \/ \A i \in DOMAIN S : S[i].title = 0
    \/ \A i \in DOMAIN S : S[i].description = 0

\* the vocabulary + idf snapshot saved as the 'vectorizers' blob
VectorizerData(S) ==
    [title_vocabulary |-> {S[i].title : i \in DOMAIN S} \ {0},
     desc_vocabulary |-> {S[i].description : i \in DOMAIN S} \ {0}]

\* np.where(initial_similarities[i] >= self.similarity_threshold)
similar_indices(S, i) ==
    {j \in DOMAIN S : TitleSim(S[i].title, S[j].title) >= similarity_threshold}

\* step 4, the fast initial clustering over title similarity: the loop
\* from record i on, given clusters_map and next_cluster_id so far
RECURSIVE InitialClustering(_, _, _, _)
InitialClustering(S, i, map, next) ==
    IF i > Len(S) THEN [clusters_map |-> map, next_cluster_id |-> next]
    ELSE LET fresh == i \notin DOMAIN map
             m1 == IF fresh THEN (i :> next) @@ map ELSE map
             n1 == IF fresh THEN next + 1 ELSE next
             sim == similar_indices(S, i) \ {i}
             m2 == [j \in (DOMAIN m1) \cup sim |->
                       IF j \in sim THEN m1[i] ELSE m1[j]]
         IN  InitialClustering(S, i + 1, m2, n1)

\* range(0, len(servers), batch_size): the first index of every batch
BatchStarts(S) ==
    {b \in DOMAIN S : (b - 1) % batch_size = 0}

BatchEnd(S, batch_start) ==
    IF batch_start + batch_size - 1 < Len(S)
    THEN batch_start + batch_size - 1 ELSE Len(S)

\* the combined score test of calculate_batch_similarities:
\* 0.6 * title + 0.4 * description >= similarity_threshold
CombinedSimilar(x, y) ==
    title_weight * TitleSim(x.title, y.title)
      + desc_weight * DescSim(x.description, y.description)
        >= 10 * similarity_threshold

\* calculate_batch_similarities: the keys of the result dict, in insertion
\* order (i outer, j inner), of one batch
calculate_batch_similarities(S, batch_start) ==
    LET batch_end == BatchEnd(S, batch_start)
        w == batch_end - batch_start + 1
        all == [k \in 1..(w * w) |->
                  <<batch_start + ((k - 1) \div w), batch_start + ((k - 1) % w)>>]
        Hit(p) == /\ S[p[1]].server_id # S[p[2]].server_id
                  /\ CombinedSimilar(S[p[1]], S[p[2]])
        hits == SelectSeq(all, Hit)
    IN  [k \in DOMAIN hits |->
            <<S[hits[k][1]].server_id, S[hits[k][2]].server_id>>]

\* next(i for i, s in enumerate(servers) if s.server_id == id)
IndexOf(S, id) ==
    CHOOSE i \in DOMAIN S :
        /\ S[i].server_id = id
        /\ \A j \in 1..(i - 1) : S[j].server_id # id

\* the collecting loop over one future's result runs
\* clusters_map[idx2] = clusters_map[idx1] for every pair, in order.
\* AfterPairs is the entry at index x once the first k pairs are applied
RECURSIVE AfterPairs(_, _, _, _, _)
AfterPairs(S, map, pairs, k, x) ==
    IF k = 0 THEN map[x]
    ELSE IF IndexOf(S, pairs[k][2]) = x
    THEN AfterPairs(S, map, pairs, k - 1, IndexOf(S, pairs[k][1]))
    ELSE AfterPairs(S, map, pairs, k - 1, x)

ApplyPairs(S, map, pairs) ==
    [x \in DOMAIN map |-> AfterPairs(S, map, pairs, Len(pairs), x)]

\* step 6: the loop writing self.clusters, server.cluster_id and
\* self.cluster_data from clusters_map, from record i on
RECURSIVE UpdateResults(_, _, _, _, _)
UpdateResults(S, map, i, cl, cd) ==
    IF i > Len(S) THEN [clusters |-> cl, cluster_data |-> cd]
    ELSE LET cluster_id == map[i]
             key == IntKey(cluster_id)
             cl1 == [s \in (DOMAIN cl) \cup {S[i].server_id} |->
                        IF s = S[i].server_id THEN cluster_id ELSE cl[s]]
             cd1 == IF key \notin DOMAIN cd
                    THEN (key :> [entity_name |-> extract_entity_name(S[i].title),
                                  servers |-> <<>>]) @@ cd
                    ELSE cd
             cd2 == [cd1 EXCEPT ![key].servers = Append(@, S[i].server_id)]
         IN  UpdateResults(S, map, i + 1, cl1, cd2)

AssignClusterIds(S, map) ==
    [i \in DOMAIN S |-> [S[i] EXCEPT !.cluster_id = map[i]]]

\* the payload handed to save_intermediate_result('clustering', ...)
ClusteringPayload(cl, cd, next) ==
    [clusters |-> cl, cluster_data |-> cd, next_cluster_id |-> next]

\* the cached branch without the loop that sets server.cluster_id
KeepClusterIds(S, cl) == S

\* the cached branch: server.cluster_id = self.clusters.get(server.server_id)
RestoreClusterIds(S, cl) ==
    [i \in DOMAIN S |->
        [S[i] EXCEPT !.cluster_id =
            IF S[i].server_id \in DOMAIN cl THEN cl[S[i].server_id] ELSE None]]

\* _get_cluster_summary_internal: per group with a member in the list,
\* the group key and its members in list order
ClusterSummaries(S, cd) ==
    { [cluster_id |-> k,
       entity_name |-> cd[k].entity_name,
       servers |-> SelectSeq([i \in DOMAIN S |-> S[i].server_id],
                             LAMBDA id : id \in Range(cd[k].servers))] :
      k \in {key \in DOMAIN cd :
                \E i \in DOMAIN S : S[i].server_id \in Range(cd[key].servers)} }

\* _generate_visualization_data_internal: the plotted server ids and their
\* cluster ids
VisualizationData(S) ==
    LET shown == SelectSeq(S, LAMBDA s : s.cluster_id # None)
    IN  [server_ids |-> [i \in DOMAIN shown |-> shown[i].server_id],
         clusters |-> [i \in DOMAIN shown |-> shown[i].cluster_id]]

(***************************************************************************)
(* cluster_servers, one action per step between two file writes.           *)
(* The caller sets pc to "cluster_servers" and counts the call.            *)
(***************************************************************************)
otherVars == <<now, ret, processorVars, pipelineVars>>

\* lines 115-128: the 'clustering' blob is present; restore and return
RestoreFromCache ==
    LET cached_results == load_intermediate_result(blobs, "clustering")
    IN  /\ pc = "cluster_servers"
        /\ Loaded(cached_results)
        /\ clusters' = cached_results.data.clusters
        /\ cluster_data' = cached_results.data.cluster_data
        /\ next_cluster_id' = cached_results.data.next_cluster_id
        /\ servers' = RestoreClusterIds(servers, cached_results.data.clusters)
        /\ did' = {}
        /\ result' = "restored"
        /\ pc' = "idle"
        /\ UNCHANGED <<fitted, runVars, computed, fileVars, otherVars>>

\* lines 116-117, 130-133: no usable blob; the uncached run starts
StartUncached ==
    /\ pc = "cluster_servers"
    /\ ~Loaded(load_intermediate_result(blobs, "clustering"))
    /\ did' = {}
    /\ result' = "running"
    /\ pc' = "fit"
    /\ UNCHANGED <<servers, serviceVars, runVars, computed, fileVars,
                   otherVars>>

\* a fit failure that leaves the vocabulary of the fitted title vectorizer
\* in the 'vectorizers' blob
FitFailsAfterSave ==
    /\ pc = "fit"
    /\ FitRaises(servers)
    /\ fitted' = IF \A i \in DOMAIN servers : servers[i].title = 0
                 THEN fitted ELSE fitted \cup {"title"}
    /\ blobs' = IF \A i \in DOMAIN servers : servers[i].title = 0
                THEN blobs
                ELSE save_intermediate_result(blobs, "vectorizers",
                                              VectorizerData(servers))
    /\ result' = "raised"
    /\ pc' = "idle"
    /\ UNCHANGED <<servers, clusters, cluster_data, next_cluster_id, runVars,
                   did, computed, ledger, otherVars>>

\* lines 137-138: a vectorizer fit raises; the error leaves cluster_servers
FitFails ==
    /\ pc = "fit"
    /\ FitRaises(servers)
    /\ fitted' = IF \A i \in DOMAIN servers : servers[i].title = 0
                 THEN fitted ELSE fitted \cup {"title"}
    /\ result' = "raised"
    /\ pc' = "idle"
    /\ UNCHANGED <<servers, clusters, cluster_data, next_cluster_id, runVars,
                   did, computed, fileVars, otherVars>>

\* lines 137-147: both vectorizers are fitted, the snapshot is saved
FitVectorizers ==
    /\ pc = "fit"
    /\ ~FitRaises(servers)
    /\ fitted' = {"title", "description"}
    /\ blobs' = save_intermediate_result(blobs, "vectorizers",
                                         VectorizerData(servers))
    /\ did' = did \cup {"fit", "save_vectorizers"}
    /\ pc' = "phase1"
    /\ UNCHANGED <<servers, clusters, cluster_data, next_cluster_id, runVars,
                   result, computed, ledger, otherVars>>

\* lines 151-184: phase 1, then one future per batch is submitted
InitialPass ==
    LET r == InitialClustering(servers, 1, <<>>, next_cluster_id)
    IN  /\ pc = "phase1"
        /\ clusters_map' = r.clusters_map
        /\ next_cluster_id' = r.next_cluster_id
        /\ futures' = BatchStarts(servers)
        /\ completed' = {}
        /\ did' = did \cup {"phase1"}
        /\ pc' = "phase2"
        /\ UNCHANGED <<servers, clusters, cluster_data, fitted, result,
                       computed, fileVars, otherVars>>

\* a batch task that applies its own pairs to the shared map
BatchTaskWritesMap(b) ==
    /\ pc = "phase2"
    /\ b \in futures
    /\ \A future \in completed : future.batch # b
    /\ completed' = completed \cup {[batch |-> b, raised |-> FALSE]}
    /\ clusters_map' = ApplyPairs(servers, clusters_map,
                                  calculate_batch_similarities(servers, b))
    /\ UNCHANGED <<servers, serviceVars, futures, pc, result, did, computed,
                   fileVars, otherVars>>

\* lines 176-184 and 69-102: the task of batch b runs in the worker pool
\* and returns; it reads servers and the vectorizers and writes nothing
BatchTask(b) ==
    /\ pc = "phase2"
    /\ b \in futures
    /\ \A future \in completed : future.batch # b
    /\ completed' = completed \cup {[batch |-> b, raised |-> FALSE]}
    /\ UNCHANGED <<servers, serviceVars, clusters_map, futures, pc, result,
                   did, computed, fileVars, otherVars>>

\* lines 103-105: the computation of batch b raises inside the worker; the
\* except clause of the task prints and returns {}
BatchTaskRaises(b) ==
    /\ pc = "phase2"
    /\ b \in futures
    /\ \A future \in completed : future.batch # b
    /\ completed' = completed \cup {[batch |-> b, raised |-> TRUE]}
    /\ UNCHANGED <<servers, serviceVars, clusters_map, futures, pc, result,
                   did, computed, fileVars, otherVars>>

\* a result that holds the pairs of the batch although its computation
\* raised
FutureResultKeepsPairs(S, future) ==
    calculate_batch_similarities(S, future.batch)

\* future.result() of a task that has ended: the pairs of the batch, or
\* the empty dict of a task whose computation raised
FutureResult(S, future) ==
    IF future.raised THEN <<>>
    ELSE calculate_batch_similarities(S, future.batch)

\* lines 187-194: as_completed yields the ended future of batch b, whose
\* pairs the coordinator applies to clusters_map
CollectBatch(b) ==
    /\ pc = "phase2"
    /\ b \in futures
    /\ \E future \in {c \in completed : c.batch = b} :
       \E similarities \in {FutureResult(servers, future)} :
          clusters_map' = ApplyPairs(servers, clusters_map, similarities)
    /\ futures' = futures \ {b}
    /\ UNCHANGED <<servers, serviceVars, completed, pc, result, did, computed,
                   fileVars, otherVars>>

\* lines 199-211: every future is collected; step 6 writes the results
UpdateFinalResults ==
    LET r == UpdateResults(servers, clusters_map, 1, clusters, cluster_data)
    IN  /\ pc = "phase2"
        /\ futures = {}
        /\ clusters' = r.clusters
        /\ cluster_data' = r.cluster_data
        /\ servers' = AssignClusterIds(servers, clusters_map)
        /\ did' = did \cup {"phase2"}
        /\ pc' = "save"
        /\ UNCHANGED <<next_cluster_id, fitted, runVars, result, computed,
                       fileVars, otherVars>>

\* lines 214-218: the 'clustering' blob is written
SaveClustering ==
    /\ pc = "save"
    /\ blobs' = save_intermediate_result(blobs, "clustering",
                  ClusteringPayload(clusters, cluster_data, next_cluster_id))
    /\ computed' = [i \in DOMAIN servers |-> servers[i].cluster_id]
    /\ did' = did \cup {"save_clustering"}
    /\ pc' = "complete"
    /\ UNCHANGED <<servers, serviceVars, runVars, result, ledger,
                   otherVars>>

\* cluster_servers without the complete_stage call of line 219
SkipCompleteClustering ==
    /\ pc = "complete"
    /\ pc' = "visualization"
    /\ UNCHANGED <<servers, serviceVars, runVars, result, did, computed,
                   fileVars, otherVars>>

\* line 219: the stage is marked complete in the ledger
CompleteClustering ==
    /\ pc = "complete"
    /\ ledger' = complete_stage(ledger, "clustering", now)
    /\ did' = did \cup {"complete_stage"}
    /\ pc' = "visualization"
    /\ UNCHANGED <<servers, serviceVars, runVars, result, computed,
                   blobs, otherVars>>

\* lines 223-224: the visualization payload is computed and cached
SaveVisualization ==
    /\ pc = "visualization"
    /\ blobs' = save_intermediate_result(blobs, "visualization",
                                         VisualizationData(servers))
    /\ pc' = "summaries"
    /\ UNCHANGED <<servers, serviceVars, runVars, result, did, computed,
                   ledger, otherVars>>

\* lines 227-233: the summaries are computed and cached; the call returns
SaveSummaries ==
    /\ pc = "summaries"
    /\ blobs' = save_intermediate_result(blobs, "summaries",
                                         ClusterSummaries(servers, cluster_data))
    /\ result' = "computed"
    /\ pc' = "idle"
    /\ UNCHANGED <<servers, serviceVars, runVars, did, computed, ledger,
                   otherVars>>

ClusterStep ==
    \/ RestoreFromCache
    \/ StartUncached
    \/ FitFails
    \/ FitVectorizers
    \/ InitialPass
    \/ \E b \in futures : BatchTask(b)
    \/ \E b \in futures : CollectBatch(b)
    \/ UpdateFinalResults
    \/ SaveClustering
    \/ CompleteClustering
    \/ SaveVisualization
    \/ SaveSummaries

(***************************************************************************)
(* Spec: one service process and its clustering_service singleton          *)
(* (api/endpoints.py:25) on a corpus of MaxServers records.                *)
(***************************************************************************)
Corpora ==
    { [i \in 1..MaxServers |->
          [server_id |-> i, title |-> f[i].title,
           description |-> f[i].description, cluster_id |-> None]] :
      f \in [1..MaxServers -> Profiles] }

Unclustered(S) == [i \in DOMAIN S |-> [S[i] EXCEPT !.cluster_id = None]]

InitFiles ==
    /\ ledger = NoFile
    /\ blobs = [s \in BlobNames |-> NoFile]
    /\ now = 1
    /\ ret = [op |-> "none"]

InitService ==
    /\ clusters = <<>>
    /\ cluster_data = <<>>
    /\ next_cluster_id = 0
    /\ fitted = {}
    /\ clusters_map = <<>>
    /\ futures = {}
    /\ completed = {}
    /\ result = "none"
    /\ did = {}
    /\ computed = <<>>

InitProcessor ==
    /\ data_file = <<>>
    /\ raw_data = <<>>
    /\ processed = <<>>
    /\ raw_pos = 0
    /\ processed_count = 0

InitPipelineVars ==
    /\ verified = TRUE
    /\ crashes = 0
    /\ faults = 0
    /\ interrupted = FALSE

Init ==
    /\ servers \in Corpora
    /\ pc = "idle"
    /\ InitService
    /\ InitFiles
    /\ InitProcessor
    /\ InitPipelineVars

\* an endpoint calls clustering_service.cluster_servers(processed_servers)
Call ==
    /\ pc = "idle"
    /\ next_cluster_id + Len(servers) <= MaxClusterId
    /\ pc' = "cluster_servers"
    /\ UNCHANGED <<servers, serviceVars, runVars, result, did, computed,
                   fileVars, otherVars>>

\* scripts/clear_clustering_data.py, clear_cache_files: every file of the
\* intermediate directory named clustering_* is removed
clear_cache_files(b) ==
    [s \in DOMAIN b |-> IF s = "clustering" THEN NoFile ELSE b[s]]

ClearCacheFiles ==
    /\ pc = "idle"
    /\ blobs["clustering"].kind # "absent"
    /\ blobs' = clear_cache_files(blobs)
    /\ UNCHANGED <<servers, serviceVars, runVars, pc, result, did, computed,
                   ledger, otherVars>>

\* the process is stopped and started again: a new service instance, and
\* the records reloaded from the 'metrics_calculation' blob, which was
\* written before any clustering
Restart ==
    /\ pc = "idle"
    /\ result # "none"
    /\ servers' = Unclustered(servers)
    /\ clusters' = <<>>
    /\ cluster_data' = <<>>
    /\ next_cluster_id' = 0
    /\ fitted' = {}
    /\ result' = "none"
    /\ UNCHANGED <<runVars, pc, did, computed, fileVars, otherVars>>

Next ==
    \/ Call
    \/ ClusterStep
    \/ ClearCacheFiles

Spec == Init /\ [][Next]_vars

(***************************************************************************)
(* SpecResume: the same service across process restarts, on the corpora    *)
(* drawn from three of the profiles.                                       *)
(***************************************************************************)
ResumeProfiles ==
    { [title |-> 2, description |-> 1],
      [title |-> 3, description |-> 1],
      [title |-> 0, description |-> 1] }

InitResume ==
    /\ servers \in {S \in Corpora :
                      \A i \in DOMAIN S :
                          [title |-> S[i].title,
                           description |-> S[i].description] \in ResumeProfiles}
    /\ pc = "idle"
    /\ InitService
    /\ InitFiles
    /\ InitProcessor
    /\ InitPipelineVars

NextResume ==
    \/ Call
    \/ ClusterStep
    \/ ClearCacheFiles
    \/ Restart

SpecResume == InitResume /\ [][NextResume]_vars

(***************************************************************************)
(* SpecPhase1: cluster_servers on corpora whose titles form a chain: each  *)
(* of the titles 1, 2, 4, 5 is similar to the next one and to no other, so *)
(* that title similarity at the threshold is not transitive.  Every order  *)
(* of the records is a corpus.                                             *)
(***************************************************************************)
ChainTitles == {0, 1, 2, 4, 5}

InitPhase1 ==
    /\ servers \in { [i \in 1..MaxChained |->
                         [server_id |-> i, title |-> f[i], description |-> 1,
                          cluster_id |-> None]] :
                     f \in [1..MaxChained -> ChainTitles] }
    /\ pc = "idle"
    /\ InitService
    /\ InitFiles
    /\ InitProcessor
    /\ InitPipelineVars

NextPhase1 ==
    \/ Call
    \/ ClusterStep

SpecPhase1 == InitPhase1 /\ [][NextPhase1]_vars

(***************************************************************************)
(* SpecPM: the ProgressManager methods called in any order on the ledger   *)
(* and on the blobs of two stages, while the environment damages or        *)
(* removes the files and the clock advances.                               *)
(***************************************************************************)
PMStages == {"data_loading", "clustering"}
\* the payloads saved per stage: raw record lists for 'data_loading'; for
\* 'clustering' the dict of cluster_servers, cluster_data keyed by int as
\* step 6 builds it or by str as a restore left it
PMPayloads(stage) ==
    IF stage = "clustering"
    THEN { ClusteringPayload(1 :> 0,
                             key :> [entity_name |-> <<"binance">>,
                                     servers |-> <<1>>],
                             1) : key \in {IntKey(0), StrKey(0)} }
    ELSE {<<1>>, <<2>>}
Counts == 0..MaxCount

NoCall == [op |-> "none"]

InitPM ==
    /\ pc = "progress_manager"
    /\ servers = <<>>
    /\ InitService
    /\ InitFiles
    /\ InitProcessor
    /\ InitPipelineVars

pmFrame ==
    <<servers, serviceVars, runVars, pc, result, did, computed, processorVars,
      pipelineVars>>

GetProgressCall ==
    /\ pc = "progress_manager"
    /\ ret' = [op |-> "get_progress",
               raised |-> get_progress(ledger).raised,
               value |-> get_progress(ledger).value]
    /\ UNCHANGED <<ledger, blobs, now, pmFrame>>

UpdateProgressCall(stage, processed_n, total_n) ==
    /\ pc = "progress_manager"
    /\ ledger' = update_progress(ledger, stage, processed_n, total_n, now)
    /\ ret' = [op |-> "update_progress", stage |-> stage,
               processed_count |-> processed_n, total_count |-> total_n]
    /\ UNCHANGED <<blobs, now, pmFrame>>

CompleteStageCall(stage) ==
    /\ pc = "progress_manager"
    /\ ledger' = complete_stage(ledger, stage, now)
    /\ ret' = [op |-> "complete_stage", stage |-> stage]
    /\ UNCHANGED <<blobs, now, pmFrame>>

SaveCall(stage, data) ==
    /\ pc = "progress_manager"
    /\ blobs' = save_intermediate_result(blobs, stage, data)
    /\ ret' = [op |-> "save_intermediate_result", stage |-> stage,
               payload |-> data]
    /\ UNCHANGED <<ledger, now, pmFrame>>

LoadCall(stage) ==
    /\ pc = "progress_manager"
    /\ ret' = [op |-> "load_intermediate_result", stage |-> stage,
               value |-> load_intermediate_result(blobs, stage)]
    /\ UNCHANGED <<ledger, blobs, now, pmFrame>>

VerifyCall ==
    /\ pc = "progress_manager"
    /\ ret' = [op |-> "verify_cache_integrity",
               value |-> verify_cache_integrity(ledger, blobs)]
    /\ UNCHANGED <<ledger, blobs, now, pmFrame>>

ResetCall ==
    /\ pc = "progress_manager"
    /\ ledger' = reset_ledger(ledger)
    /\ blobs' = reset_blobs(blobs)
    /\ ret' = [op |-> "reset_progress",
               removed |-> {s \in BlobNames : blobs[s].kind # "absent"}]
    /\ UNCHANGED <<now, pmFrame>>

\* the environment: the ledger file is made unreadable, truncated, or
\* replaced by JSON without the completed_stages field
DamageLedger(kind) ==
    /\ pc = "progress_manager"
    /\ ledger.kind # kind
    /\ ledger' = BadFile(kind)
    /\ ret' = NoCall
    /\ UNCHANGED <<blobs, now, pmFrame>>

\* the environment: a blob file is removed, made unreadable or truncated
DamageBlob(stage, kind) ==
    /\ pc = "progress_manager"
    /\ blobs[stage].kind # kind
    /\ blobs' = [blobs EXCEPT ![stage] = BadFile(kind)]
    /\ ret' = NoCall
    /\ UNCHANGED <<ledger, now, pmFrame>>

\* time passes between two calls
Tick ==
    /\ pc = "progress_manager"
    /\ now < MaxClock
    /\ now' = now + 1
    /\ ret' = NoCall
    /\ UNCHANGED <<ledger, blobs, pmFrame>>

NextPM ==
    \/ GetProgressCall
    \/ \E stage \in PMStages, p \in Counts, t \in Counts :
          UpdateProgressCall(stage, p, t)
    \/ \E stage \in PMStages : CompleteStageCall(stage)
    \/ \E stage \in PMStages : \E data \in PMPayloads(stage) :
          SaveCall(stage, data)
    \/ \E stage \in PMStages : LoadCall(stage)
    \/ VerifyCall
    \/ ResetCall
    \/ \E kind \in {"unreadable", "corrupt", "nofield"} : DamageLedger(kind)
    \/ \E stage \in PMStages, kind \in {"absent", "unreadable", "corrupt"} :
          DamageBlob(stage, kind)
    \/ Tick

SpecPM == InitPM /\ [][NextPM]_vars

(***************************************************************************)
(* reset_progress over whatever the cache directory holds.  A              *)
(* ProgressManager is constructed on a directory left by earlier runs: a   *)
(* ledger that is missing, damaged or lists completed stages, and any      *)
(* subset of the *_result.json files, intact or truncated.  The calls are  *)
(* reset_progress, the two readers and the saves of cluster_servers that   *)
(* write blobs outside the ledger's stages.                                *)
(***************************************************************************)
LeftLedgers ==
    {NoFile, BadFile("unreadable"), BadFile("corrupt"),
     File([InitialProgress EXCEPT !.completed_stages = <<"data_loading">>,
                                  !.current_stage = "clustering",
                                  !.last_updated = 0])}
LeftBlobs == {NoFile, BadFile("corrupt"), File(<<1>>)}
DerivedBlobs == {"visualization", "summaries"}

InitReset ==
    /\ pc = "progress_manager"
    /\ servers = <<>>
    /\ InitService
    /\ ledger \in LeftLedgers
    /\ blobs \in [BlobNames -> LeftBlobs]
    /\ now = 1
    /\ ret = NoCall
    /\ InitProcessor
    /\ InitPipelineVars

NextReset ==
    \/ ResetCall
    \/ GetProgressCall
    \/ \E stage \in BlobNames : LoadCall(stage)
    \/ \E stage \in DerivedBlobs : SaveCall(stage, <<2>>)

SpecReset == InitReset /\ [][NextReset]_vars

(***************************************************************************)
(* SpecSimilar: get_similar_servers on the clustering_service singleton,   *)
(* as GET /servers/{server_id} calls it on processed_servers, across       *)
(* process restarts.  The first query of a process finds records without   *)
(* cluster ids and runs cluster_servers inside the call.                   *)
(***************************************************************************)
\* def get_similar_servers(..., top_n: int = 3)
top_n_default == 3
TopNs == 0..top_n_default
\* the ids asked for: those of the corpus and one that no record carries
QueryIds == 1..(MaxQueried + 1)

SimilarProfiles ==
    { [title |-> 1, description |-> 1],
      [title |-> 2, description |-> 2],
      [title |-> 0, description |-> 1] }

\* next((server for server in servers if server.server_id == server_id),
\* None): the index of the first match, 0 for None
find_target_or_first(S, server_id) ==
    IF \E i \in DOMAIN S : S[i].server_id = server_id
    THEN IndexOf(S, server_id) ELSE 1

find_target(S, server_id) ==
    IF \E i \in DOMAIN S : S[i].server_id = server_id
    THEN IndexOf(S, server_id) ELSE 0

\* the candidate list without the same-cluster preference
all_other_servers(S, server_id) ==
    SelectSeq(S, LAMBDA server : server.server_id # server_id)

\* the servers ranked: those of the target's cluster other than the
\* target, or every other server when there is none
candidate_pool(S, server_id) ==
    LET target_server == S[find_target(S, server_id)]
        cluster_servers ==
            SelectSeq(S, LAMBDA server :
                /\ server.cluster_id = target_server.cluster_id
                /\ server.server_id # server_id)
    IN  IF cluster_servers = <<>>
        THEN SelectSeq(S, LAMBDA server : server.server_id # server_id)
        ELSE cluster_servers

\* transform() with the vocabulary the vectorizer holds: a text with no
\* token of the vocabulary gives the zero vector
InVocabulary(vocabulary, t) == IF t \in vocabulary THEN t ELSE 0

\* 0.6 * title_similarity + 0.4 * desc_similarity, in thousandths
combined_similarity(vectorizer_data, x, y) ==
    title_weight * TitleSim(InVocabulary(vectorizer_data.title_vocabulary, x.title),
                            InVocabulary(vectorizer_data.title_vocabulary, y.title))
      + desc_weight * DescSim(InVocabulary(vectorizer_data.desc_vocabulary, x.description),
                              InVocabulary(vectorizer_data.desc_vocabulary, y.description))

\* similarities.sort(key=lambda x: x[1], reverse=True): a stable sort, so
\* entries of equal score keep their order
sort_by_similarity(similarities) ==
    LET n == Len(similarities)
        position(i) ==
            1 + Cardinality({j \in 1..n :
                    \/ similarities[j].similarity_score
                          > similarities[i].similarity_score
                    \/ /\ similarities[j].similarity_score
                             = similarities[i].similarity_score
                       /\ j < i})
    IN  [k \in 1..n |-> similarities[CHOOSE i \in 1..n : position(i) = k]]

\* seq[:top_n]
Slice(seq, top_n) ==
    IF top_n >= 0
    THEN SubSeq(seq, 1, IF top_n < Len(seq) THEN top_n ELSE Len(seq))
    ELSE SubSeq(seq, 1, IF Len(seq) + top_n > 0 THEN Len(seq) + top_n ELSE 0)

\* lines 465-533: the list get_similar_servers returns (server_id and
\* similarity_score of each entry; title and description are copied from
\* the record)
similar_servers(S, server_id, top_n, vectorizer_data) ==
    LET target_server == S[find_target(S, server_id)]
        pool == candidate_pool(S, server_id)
        similarities ==
            [i \in DOMAIN pool |->
                [server_id |-> pool[i].server_id,
                 similarity_score |->
                    combined_similarity(vectorizer_data, target_server, pool[i])]]
    IN  Slice(sort_by_similarity(similarities), top_n)

\* the frame of a get_similar_servers call: where it stands and, once it
\* ended, what it returned or raised
Frame(server_id, top_n, at, error, value) ==
    [op |-> "get_similar_servers", server_id |-> server_id, top_n |-> top_n,
     at |-> at, error |-> error, value |-> value]

InsideQuery == ret.op = "get_similar_servers" /\ ret.at = "cluster_servers"

queryFrame ==
    <<runVars, result, did, computed, ledger, now, processorVars,
      pipelineVars>>

\* lines 431-433: no record carries server_id; ValueError
SimilarNotFound(server_id, top_n) ==
    /\ pc = "idle"
    /\ ~InsideQuery
    /\ find_target(servers, server_id) = 0
    /\ ret' = Frame(server_id, top_n, "raised", "not_found", <<>>)
    /\ UNCHANGED <<servers, serviceVars, pc, blobs, queryFrame>>

\* lines 436-437: some record has no cluster id; cluster_servers runs
SimilarClusterFirst(server_id, top_n) ==
    /\ pc = "idle"
    /\ ~InsideQuery
    /\ find_target(servers, server_id) # 0
    /\ \E i \in DOMAIN servers : servers[i].cluster_id = None
    /\ next_cluster_id + Len(servers) <= MaxClusterId
    /\ pc' = "cluster_servers"
    /\ ret' = Frame(server_id, top_n, "cluster_servers", "none", <<>>)
    /\ UNCHANGED <<servers, serviceVars, blobs, queryFrame>>

\* line 437: the error of cluster_servers leaves get_similar_servers
SimilarClusteringRaised ==
    /\ pc = "idle"
    /\ InsideQuery
    /\ result = "raised"
    /\ ret' = [ret EXCEPT !.at = "raised", !.error = "fit"]
    /\ UNCHANGED <<servers, serviceVars, pc, blobs, queryFrame>>

\* lines 440-533: the vectorizers are restored from their blob, or fitted
\* and saved; then the candidates are ranked
SimilarAnswer(server_id, top_n) ==
    LET vectorizer_data == load_intermediate_result(blobs, "vectorizers")
    IN  /\ pc = "idle"
        /\ IF Loaded(vectorizer_data)
           THEN /\ fitted' = {"title", "description"}
                /\ blobs' = blobs
                /\ ret' = Frame(server_id, top_n, "returned", "none",
                                similar_servers(servers, server_id, top_n,
                                                vectorizer_data.data))
           ELSE IF FitRaises(servers)
           THEN /\ fitted' = IF \A i \in DOMAIN servers : servers[i].title = 0
                             THEN fitted ELSE fitted \cup {"title"}
                /\ blobs' = blobs
                /\ ret' = Frame(server_id, top_n, "raised", "fit", <<>>)
           ELSE /\ fitted' = {"title", "description"}
                /\ blobs' = save_intermediate_result(blobs, "vectorizers",
                                                     VectorizerData(servers))
                /\ ret' = Frame(server_id, top_n, "returned", "none",
                                similar_servers(servers, server_id, top_n,
                                                VectorizerData(servers)))
        /\ UNCHANGED <<servers, clusters, cluster_data, next_cluster_id, pc,
                       queryFrame>>

\* lines 436-437 with every record clustered: no clustering
SimilarDirect(server_id, top_n) ==
    /\ ~InsideQuery
    /\ find_target(servers, server_id) # 0
    /\ \A i \in DOMAIN servers : servers[i].cluster_id # None
    /\ SimilarAnswer(server_id, top_n)

\* cluster_servers returned inside the call
SimilarAfterClustering ==
    /\ InsideQuery
    /\ result # "raised"
    /\ SimilarAnswer(ret.server_id, ret.top_n)

\* processed_servers as process_data returns it: one record per raw
\* record, or, after a resumed run that re-reads a raw record, a list
\* whose last record repeats the one before it
DistinctLists ==
    { [i \in 1..MaxQueried |->
          [server_id |-> i, title |-> f[i].title,
           description |-> f[i].description, cluster_id |-> None]] :
      f \in [1..MaxQueried -> SimilarProfiles] }
ResumedLists ==
    { [S EXCEPT ![MaxQueried] = S[MaxQueried - 1]] : S \in DistinctLists }

InitSimilar ==
    /\ servers \in DistinctLists \cup ResumedLists
    /\ pc = "idle"
    /\ InitService
    /\ InitFiles
    /\ InitProcessor
    /\ InitPipelineVars

NextSimilar ==
    \/ \E server_id \in QueryIds, top_n \in TopNs :
          \/ SimilarNotFound(server_id, top_n)
          \/ SimilarClusterFirst(server_id, top_n)
          \/ SimilarDirect(server_id, top_n)
    \/ SimilarClusteringRaised
    \/ SimilarAfterClustering
    \/ ClusterStep
    \/ ~InsideQuery /\ Restart

SpecSimilar == InitSimilar /\ [][NextSimilar]_vars

(***************************************************************************)
(* SpecPipeline: the service process from startup (main.py startup_event)  *)
(* through process_data of api/endpoints.py: load_data, process_data and   *)
(* cluster_servers, one file write per step.  The process can crash        *)
(* between any two steps, and while it is down the environment can remove  *)
(* or truncate a blob file.                                                *)
(***************************************************************************)
RawProfiles ==
    { [title |-> 2, description |-> 1],
      [title |-> 3, description |-> 1] }

\* a record without a required field: the body of the processing loop
\* raises on it
Malformed == [title |-> None, description |-> None]

\* the raw data file: MaxRaw records
RawFiles ==
    { [i \in 1..MaxRaw |->
          [id |-> i, valid |-> f[i] # Malformed, title |-> f[i].title,
           description |-> f[i].description]] :
      f \in [1..MaxRaw -> RawProfiles \cup {Malformed}] }

\* ServerMetrics(server_id=server.id, title=..., description=...)
Metrics(server_data) ==
    [server_id |-> server_data.id, title |-> server_data.title,
     description |-> server_data.description, cluster_id |-> None]

CompletedStages(l) == Range(get_progress(l).value.completed_stages)

InitPipeline ==
    /\ pc = "down"
    /\ servers = <<>>
    /\ InitService
    /\ InitFiles
    /\ data_file \in RawFiles
    /\ raw_data = <<>>
    /\ processed = <<>>
    /\ raw_pos = 0
    /\ processed_count = 0
    /\ InitPipelineVars

memoryVars == <<servers, serviceVars, runVars, result, did, computed>>
loopVars == <<raw_data, processed, raw_pos, processed_count>>
envVars == <<now, ret, data_file, crashes, faults, interrupted>>

\* main.py:64-67: the process starts and verifies the cache
StartupVerify ==
    /\ pc = "down"
    /\ verified' = verify_cache_integrity(ledger, blobs)
    /\ pc' = IF verified' THEN "startup_gate" ELSE "reset_progress"
    /\ UNCHANGED <<memoryVars, loopVars, fileVars, envVars>>

\* progress_manager.py:152-153: reset_progress removes the ledger
ResetRemoveLedger ==
    /\ pc = "reset_progress"
    /\ ledger' = reset_ledger(ledger)
    /\ pc' = "reset_blobs"
    /\ UNCHANGED <<memoryVars, loopVars, blobs, verified, envVars>>

\* progress_manager.py:156-158: reset_progress removes the blobs
ResetRemoveBlobs ==
    /\ pc = "reset_blobs"
    /\ blobs' = reset_blobs(blobs)
    /\ pc' = "startup_gate"
    /\ UNCHANGED <<memoryVars, loopVars, ledger, verified, envVars>>

\* main.py:70-81: all stages completed: nothing to do; else process_data
StartupGate ==
    /\ pc = "startup_gate"
    /\ pc' = IF Len(get_progress(ledger).value.completed_stages) = Len(STAGES)
             THEN "idle" ELSE "load_data"
    /\ UNCHANGED <<memoryVars, loopVars, fileVars, verified, envVars>>

\* processor.py:41-59: load_data restores the 'data_loading' blob, or reads
\* the data file; len(None) raises when the blob cannot be loaded
LoadData ==
    /\ pc = "load_data"
    /\ IF "data_loading" \in CompletedStages(ledger)
       THEN LET r == load_intermediate_result(blobs, "data_loading")
            IN  IF Loaded(r)
                THEN /\ raw_data' = r.data
                     /\ pc' = "process_data"
                     /\ UNCHANGED result
                ELSE /\ pc' = "idle"
                     /\ result' = "raised"
                     /\ UNCHANGED raw_data
       ELSE /\ raw_data' = data_file
            /\ pc' = "save_data_loading"
            /\ UNCHANGED result
    /\ UNCHANGED <<servers, serviceVars, runVars, did, computed, processed,
                   raw_pos, processed_count, fileVars, verified, envVars>>

\* processor.py:63
SaveDataLoading ==
    /\ pc = "save_data_loading"
    /\ blobs' = save_intermediate_result(blobs, "data_loading", raw_data)
    /\ pc' = "complete_data_loading"
    /\ UNCHANGED <<memoryVars, loopVars, ledger, verified, envVars>>

\* processor.py:64
CompleteDataLoading ==
    /\ pc = "complete_data_loading"
    /\ ledger' = complete_stage(ledger, "data_loading", now)
    /\ pc' = "process_data"
    /\ UNCHANGED <<memoryVars, loopVars, blobs, verified, envVars>>

\* processor.py:76-103: process_data up to its loop: the finished list is
\* restored from 'metrics_calculation', or the loop starts, after the blob
\* of an unfinished stage at index len(processed_servers) of raw_data
ProcessDataStart ==
    LET progress == get_progress(ledger).value
        done == load_intermediate_result(blobs, "metrics_calculation")
        resumes == progress.current_stage \in
                      {"basic_processing", "feature_extraction"}
        partial == IF resumes
                   THEN load_intermediate_result(blobs, progress.current_stage)
                   ELSE File(<<>>)
        raises == \/ raw_data = <<>>
                  \/ IF "metrics_calculation" \in Range(progress.completed_stages)
                     THEN ~Loaded(done) ELSE ~Loaded(partial)
    IN  /\ pc = "process_data"
        /\ IF raises
           THEN /\ pc' = "idle"
                /\ result' = "raised"
                /\ UNCHANGED <<servers, processed, raw_pos, processed_count>>
           ELSE IF "metrics_calculation" \in Range(progress.completed_stages)
           THEN /\ processed' = done.data
                /\ servers' = done.data
                /\ pc' = "cluster_servers"
                /\ UNCHANGED <<result, raw_pos, processed_count>>
           ELSE /\ processed' = partial.data
                /\ processed_count' = Len(partial.data)
                /\ raw_pos' = Len(partial.data)
                /\ pc' = "process_loop"
                /\ UNCHANGED <<servers, result>>
        /\ UNCHANGED <<serviceVars, runVars, did, computed, raw_data,
                       fileVars, verified, envVars>>

\* processor.py:105-176: one iteration of the loop; a record that raises
\* is skipped, a processed one is appended and counted
ProcessRecord ==
    /\ pc = "process_loop"
    /\ raw_pos < Len(raw_data)
    /\ raw_pos' = raw_pos + 1
    /\ IF raw_data[raw_pos + 1].valid
       THEN /\ processed' = Append(processed, Metrics(raw_data[raw_pos + 1]))
            /\ processed_count' = processed_count + 1
            /\ pc' = IF processed_count' % save_every = 0
                     THEN "save_basic_processing" ELSE "process_loop"
       ELSE UNCHANGED <<processed, processed_count, pc>>
    /\ UNCHANGED <<memoryVars, raw_data, fileVars, verified, envVars>>

\* processor.py:171-172
SaveBasicProcessing ==
    /\ pc = "save_basic_processing"
    /\ blobs' = save_intermediate_result(blobs, "basic_processing", processed)
    /\ pc' = "update_basic_processing"
    /\ UNCHANGED <<memoryVars, loopVars, ledger, verified, envVars>>

\* processor.py:173-174
UpdateBasicProcessing ==
    /\ pc = "update_basic_processing"
    /\ ledger' = update_progress(ledger, "basic_processing", processed_count,
                                 Len(raw_data), now)
    /\ pc' = "process_loop"
    /\ UNCHANGED <<memoryVars, loopVars, blobs, verified, envVars>>

\* processor.py:183-186: the loop is over; the final list is saved
SaveMetrics ==
    /\ pc = "process_loop"
    /\ raw_pos = Len(raw_data)
    /\ blobs' = save_intermediate_result(blobs, "metrics_calculation",
                                         processed)
    /\ pc' = "complete_metrics"
    /\ UNCHANGED <<memoryVars, loopVars, ledger, verified, envVars>>

\* processor.py:187-189 and endpoints.py:74-79: the stage is completed and
\* the list is handed to clustering_service.cluster_servers
CompleteMetrics ==
    /\ pc = "complete_metrics"
    /\ ledger' = complete_stage(ledger, "metrics_calculation", now)
    /\ servers' = processed
    /\ pc' = "cluster_servers"
    /\ UNCHANGED <<serviceVars, runVars, result, did, computed, loopVars,
                   blobs, verified, envVars>>

ClusteringPcs ==
    {"cluster_servers", "fit", "phase1", "phase2", "save"}

\* the process dies: its memory is lost, the files stay
Crash ==
    /\ pc # "down"
    /\ crashes < MaxCrashes
    /\ crashes' = crashes + 1
    /\ interrupted' =
          IF pc \in ClusteringPcs /\ ~Loaded(blobs["clustering"]) THEN TRUE
          ELSE IF Loaded(blobs["clustering"]) THEN FALSE
          ELSE interrupted
    /\ pc' = "down"
    /\ servers' = <<>>
    /\ clusters' = <<>>
    /\ cluster_data' = <<>>
    /\ next_cluster_id' = 0
    /\ fitted' = {}
    /\ clusters_map' = <<>>
    /\ futures' = {}
    /\ completed' = {}
    /\ result' = "none"
    /\ did' = {}
    /\ computed' = <<>>
    /\ raw_data' = <<>>
    /\ processed' = <<>>
    /\ raw_pos' = 0
    /\ processed_count' = 0
    /\ UNCHANGED <<fileVars, now, ret, data_file, verified, faults>>

\* while the process is down, the blob of a stage is removed or truncated
DamageBlobWhileDown(stage, kind) ==
    /\ pc = "down"
    /\ faults < MaxFaults
    /\ blobs[stage].kind = "ok"
    /\ blobs' = [blobs EXCEPT ![stage] = BadFile(kind)]
    /\ faults' = faults + 1
    /\ UNCHANGED <<memoryVars, loopVars, ledger, pc, now, ret, data_file,
                   verified, crashes, interrupted>>

\* the steps of a process whose cache passes verification
RecoveryStep ==
    \/ StartupVerify
    \/ StartupGate
    \/ LoadData
    \/ SaveDataLoading
    \/ CompleteDataLoading
    \/ ProcessDataStart
    \/ ProcessRecord
    \/ SaveBasicProcessing
    \/ UpdateBasicProcessing
    \/ SaveMetrics
    \/ CompleteMetrics

PipelineStep ==
    \/ RecoveryStep
    \/ ResetRemoveLedger
    \/ ResetRemoveBlobs

NextPipeline ==
    \/ PipelineStep
    \/ ClusterStep
    \/ Crash
    \/ \E stage \in {"data_loading", "metrics_calculation", "clustering"},
          kind \in {"absent", "corrupt"} : DamageBlobWhileDown(stage, kind)

SpecPipeline == InitPipeline /\ [][NextPipeline]_vars

(***************************************************************************)
(* SpecRecovery: the pipeline under crashes alone, no file damaged from    *)
(* outside.  A process that is not killed takes its next step, and a       *)
(* process that is down is started again.                                  *)
(***************************************************************************)
NextRecovery ==
    \/ RecoveryStep
    \/ ClusterStep
    \/ Crash

SpecRecovery ==
    /\ InitPipeline
    /\ [][NextRecovery]_vars
    /\ WF_vars(RecoveryStep \/ ClusterStep)

(***************************************************************************)
(* SpecBatches: cluster_servers on corpora of two Phase-2 batches, with    *)
(* batch computations that raise                                           *)
(***************************************************************************)
\* one full batch and a second batch of two records
BatchedLen == batch_size + 2

\* titles 2 and 3 are not similar by title and similar on the combined
\* score: Phase 1 keeps them apart and Phase 2 merges them
BatchedProfiles ==
    { [title |-> 2, description |-> 1],
      [title |-> 3, description |-> 1] }

BatchedLists ==
    { [i \in 1..BatchedLen |->
          [server_id |-> i, title |-> f[i].title,
           description |-> f[i].description, cluster_id |-> None]] :
      f \in [1..BatchedLen -> BatchedProfiles] }

\* the list a resumed process_data returns: the record processed at the
\* checkpoint (every 100 records, the batch size) is processed again
BatchedResumedLists ==
    { [S EXCEPT ![batch_size + 1] = S[batch_size]] : S \in BatchedLists }

\* a corpus whose titles hold no vocabulary token
UnfittableList ==
    [i \in 1..BatchedLen |->
        [server_id |-> i, title |-> 0, description |-> 1, cluster_id |-> None]]

InitBatches ==
    /\ servers \in BatchedLists \cup BatchedResumedLists \cup {UnfittableList}
    /\ pc = "idle"
    /\ InitService
    /\ InitFiles
    /\ InitProcessor
    /\ InitPipelineVars

NextBatches ==
    \/ Call
    \/ ClusterStep
    \/ \E b \in futures : BatchTaskRaises(b)

SpecBatches == InitBatches /\ [][NextBatches]_vars

\* once the tasks are submitted the pool runs every one of them and the
\* coordinating thread keeps running until cluster_servers returns
PastPhase1 == pc \in {"phase2", "save", "complete", "visualization", "summaries"}
SpecBatchesFair == SpecBatches /\ WF_vars(PastPhase1 /\ ClusterStep)

(***************************************************************************)
(* SpecFit: cluster_servers on corpora on which a vectorizer fit may raise *)
(***************************************************************************)
\* records with and without a vocabulary token in title and description
FitProfiles ==
    { [title |-> 1, description |-> 1],
      [title |-> 2, description |-> 0],
      [title |-> 1, description |-> 0],
      [title |-> 0, description |-> 1] }

InitFit ==
    /\ servers \in { [i \in 1..MaxChained |->
                         [server_id |-> i, title |-> f[i].title,
                          description |-> f[i].description,
                          cluster_id |-> None]] :
                     f \in [1..MaxChained -> FitProfiles] }
    /\ pc = "idle"
    /\ InitService
    /\ InitFiles
    /\ InitProcessor
    /\ InitPipelineVars

NextFit ==
    \/ Call
    \/ ClusterStep

SpecFit == InitFit /\ [][NextFit]_vars

(***************************************************************************)
(* SpecSummary: POST /process-data (the module's service instance), POST   *)
(* /cluster (a new service instance, whose summaries are returned), the    *)
(* cache-clearing script and a process that can be killed at any point     *)
(***************************************************************************)
SummaryProfiles ==
    { [title |-> 2, description |-> 1],
      [title |-> 0, description |-> 1] }

InitSummary ==
    /\ servers \in { [i \in 1..MaxChained |->
                         [server_id |-> i, title |-> f[i].title,
                          description |-> f[i].description,
                          cluster_id |-> None]] :
                     f \in [1..MaxChained -> SummaryProfiles] }
    /\ pc = "idle"
    /\ InitService
    /\ InitFiles
    /\ InitProcessor
    /\ InitPipelineVars

\* the service instance as __init__ leaves it
NewInstance ==
    /\ clusters = <<>>
    /\ cluster_data = <<>>
    /\ next_cluster_id = 0
    /\ fitted = {}

\* endpoints.py:84, POST /process-data calls cluster_servers on the
\* instance of line 25
ProcessDataEndpoint ==
    /\ ret.op \notin {"cluster", "get_cluster_summary"}
    /\ Call

\* endpoints.py:325-327, POST /cluster: a new instance is constructed and
\* its cluster_servers is called.  serviceVars stand for the new instance;
\* the endpoint is taken while the instance of line 25 is as constructed,
\* which is what serviceVars return to when the endpoint ends
ClusterEndpoint ==
    /\ pc = "idle"
    /\ ret.op \notin {"cluster", "get_cluster_summary"}
    /\ NewInstance
    /\ result = "none"
    /\ pc' = "cluster_servers"
    /\ ret' = [op |-> "cluster"]
    /\ UNCHANGED <<servers, serviceVars, runVars, result, did, computed,
                   fileVars, now, processorVars, pipelineVars>>

\* get_cluster_summary: the cached summaries when the blob loads and is
\* not empty, else the computed ones, which are saved
get_cluster_summary(b, S, cd) ==
    LET cached_summaries == load_intermediate_result(b, "summaries")
    IN  IF Loaded(cached_summaries) /\ cached_summaries.data # {}
        THEN [summaries |-> cached_summaries.data, blobs |-> b]
        ELSE [summaries |-> ClusterSummaries(S, cd),
              blobs |-> save_intermediate_result(b, "summaries",
                                                 ClusterSummaries(S, cd))]

\* generate_visualization_data: the blob files after the call
generate_visualization_data(b, S) ==
    IF Loaded(load_intermediate_result(b, "visualization")) THEN b
    ELSE save_intermediate_result(b, "visualization", VisualizationData(S))

\* endpoints.py:330-333: cluster_servers has returned; the visualization
\* data and the summaries of the instance are fetched
GetClusterSummary ==
    /\ pc = "idle"
    /\ ret.op = "cluster"
    /\ result \in {"computed", "restored"}
    /\ \E r \in {get_cluster_summary(generate_visualization_data(blobs, servers),
                                     servers, cluster_data)} :
          /\ ret' = [op |-> "get_cluster_summary", summaries |-> r.summaries]
          /\ blobs' = r.blobs
    /\ UNCHANGED <<servers, serviceVars, runVars, pc, result, did, computed,
                   ledger, now, processorVars, pipelineVars>>

\* endpoints.py:336-346: the endpoint returns or answers 500; its instance
\* is dropped
EndClusterEndpoint ==
    /\ pc = "idle"
    /\ \/ ret.op = "get_cluster_summary"
       \/ ret.op = "cluster" /\ result = "raised"
    /\ clusters' = <<>>
    /\ cluster_data' = <<>>
    /\ next_cluster_id' = 0
    /\ fitted' = {}
    /\ result' = "none"
    /\ ret' = NoCall
    /\ UNCHANGED <<servers, runVars, pc, did, computed, fileVars, now,
                   processorVars, pipelineVars>>

\* the process is killed at any point and started again: the instances
\* are new and the records are reloaded from the 'metrics_calculation'
\* blob
KillProcess ==
    /\ pc # "idle" \/ result # "none" \/ ret # NoCall
    /\ servers' = Unclustered(servers)
    /\ clusters' = <<>>
    /\ cluster_data' = <<>>
    /\ next_cluster_id' = 0
    /\ fitted' = {}
    /\ clusters_map' = <<>>
    /\ futures' = {}
    /\ completed' = {}
    /\ pc' = "idle"
    /\ result' = "none"
    /\ did' = {}
    /\ ret' = NoCall
    /\ UNCHANGED <<computed, fileVars, now, processorVars, pipelineVars>>

NextSummary ==
    \/ ProcessDataEndpoint
    \/ ClusterEndpoint
    \/ ClusterStep
    \/ GetClusterSummary
    \/ EndClusterEndpoint
    \/ ClearCacheFiles
    \/ KillProcess

SpecSummary == InitSummary /\ [][NextSummary]_vars

(***************************************************************************)
(* SpecTags: the common tags _get_cluster_summary_internal computes for    *)
(* the members of one cluster                                              *)
(***************************************************************************)
\* tags as the raw data spells them; "API" and "api" fold to one tag
Tags == {"API", "api", "Weather"}

\* the tags list of one member: no tag, one tag or two tags
TagLists ==
    {<<>>} \cup {<<a>> : a \in Tags} \cup {<<a, b>> : a, b \in Tags}

\* the tags lists of the members of a cluster, in list order
Memberships == UNION {[1..n -> TagLists] : n \in 1..MaxMembers}

\* line 254: [tag for s in cluster_servers for tag in s.tags]
RECURSIVE all_tags(_)
all_tags(members) ==
    IF members = <<>> THEN <<>>
    ELSE Head(members) \o all_tags(Tail(members))

\* lines 255-257: tag_counts[tag.lower()] += 1 for every tag of all_tags
tag_counts(members, tag) ==
    Cardinality({n \in DOMAIN all_tags(members) :
                    Lower(all_tags(members)[n]) = tag})

\* lines 259-262: the tags whose count is >= len(cluster_servers) * 0.5
common_tags(members) ==
    {tag \in {Lower(all_tags(members)[n]) : n \in DOMAIN all_tags(members)} :
        2 * tag_counts(members, tag) >= Len(members)}

InitTags ==
    /\ pc = "common_tags"
    /\ servers = <<>>
    /\ InitService
    /\ InitFiles
    /\ InitProcessor
    /\ InitPipelineVars

CommonTagsCall(members) ==
    /\ pc = "common_tags"
    /\ ret = NoCall
    /\ ret' = [op |-> "common_tags", members |-> members,
               common_tags |-> common_tags(members)]
    /\ UNCHANGED <<servers, serviceVars, runVars, pc, result, did, computed,
                   fileVars, now, processorVars, pipelineVars>>

NextTags == \E members \in Memberships : CommonTagsCall(members)

SpecTags == InitTags /\ [][NextTags]_vars

(***************************************************************************)
(* SpecNames: the cluster names ClusteringService.get_cluster_summary      *)
(* (clustering.py) generates, one loop iteration per step                  *)
(*                                                                         *)
(* A name is a record [original_name, suffix]: the f-strings of lines 176  *)
(* to 180 append " (n Tools)", " (m Features)" or " (Group c)" to a name   *)
(* that ends in "Services", so two names are the same string exactly when  *)
(* the original name and the suffix are the same.                          *)
(***************************************************************************)
\* what the naming reads of one cluster: whether it has servers, the
\* generated name (line 168, 1 or 2 for two different strings),
\* int(avg_tool_count) and int(avg_feature_count)
NamedProfiles ==
    { [empty |-> FALSE, original_name |-> 1, tools |-> 0, features |-> 0],
      [empty |-> FALSE, original_name |-> 1, tools |-> 0, features |-> 1],
      [empty |-> FALSE, original_name |-> 1, tools |-> 1, features |-> 0],
      [empty |-> FALSE, original_name |-> 2, tools |-> 0, features |-> 0],
      [empty |-> TRUE, original_name |-> 1, tools |-> 0, features |-> 0] }

\* line 176
tools_name(cluster_id, c) ==
    [original_name |-> c.original_name, suffix |-> <<"Tools", c.tools>>]
\* line 178
features_name(cluster_id, c) ==
    [original_name |-> c.original_name, suffix |-> <<"Features", c.features>>]
\* a third candidate that is the feature count again
features_name_again(cluster_id, c) ==
    features_name(cluster_id, c)

\* line 180
group_name(cluster_id, c) ==
    [original_name |-> c.original_name, suffix |-> <<"Group", cluster_id>>]

\* lines 105-106: self.clusters is given; no name exists yet
InitNames ==
    /\ pc = "cluster_name"
    /\ \E named \in [1..MaxClusters -> NamedProfiles] :
          ret = [op |-> "get_cluster_summary", clusters |-> named,
                 cluster_id |-> 0, counter |-> 1, cluster_name |-> NoCall,
                 existing_names |-> {}, cluster_summaries |-> <<>>]
    /\ servers = <<>>
    /\ InitService
    /\ ledger = NoFile
    /\ blobs = [s \in BlobNames |-> NoFile]
    /\ now = 1
    /\ InitProcessor
    /\ InitPipelineVars

namesFrame ==
    <<servers, serviceVars, runVars, result, did, computed, fileVars, now,
      processorVars, pipelineVars>>

\* lines 108-110: a cluster without servers gets no summary
SkipEmptyCluster ==
    /\ pc = "cluster_name"
    /\ ret.clusters[ret.cluster_id + 1].empty
    /\ ret' = [ret EXCEPT !.cluster_id = @ + 1]
    /\ pc' = IF ret.cluster_id + 1 = Len(ret.clusters)
             THEN "returned" ELSE "cluster_name"
    /\ UNCHANGED namesFrame

\* lines 108, 168-172: the name of cluster cluster_id is generated
\* (enumerate counts from 0)
GenerateName ==
    /\ pc = "cluster_name"
    /\ ~ret.clusters[ret.cluster_id + 1].empty
    /\ ret' = [ret EXCEPT
                 !.cluster_name =
                     [original_name |-> ret.clusters[ret.cluster_id + 1].original_name,
                      suffix |-> <<"none">>],
                 !.counter = 1]
    /\ pc' = "while"
    /\ UNCHANGED namesFrame

\* lines 173-181: the name is taken; the next candidate is built.  counter
\* is kept at 3 once it is past 2: every later round takes the else branch
Disambiguate ==
    /\ pc = "while"
    /\ ret.cluster_name \in ret.existing_names
    /\ LET c == ret.clusters[ret.cluster_id + 1]
       IN  ret' = [ret EXCEPT
                     !.cluster_name =
                         IF ret.counter = 1 THEN tools_name(ret.cluster_id, c)
                         ELSE IF ret.counter = 2
                         THEN features_name(ret.cluster_id, c)
                         ELSE group_name(ret.cluster_id, c),
                     !.counter = IF ret.counter < 3 THEN ret.counter + 1 ELSE 3]
    /\ UNCHANGED <<pc, namesFrame>>

\* lines 173, 183-198: the name is free; it is recorded and the summary
\* appended; the for loop goes on or get_cluster_summary returns
AppendSummary ==
    /\ pc = "while"
    /\ ret.cluster_name \notin ret.existing_names
    /\ ret' = [ret EXCEPT
                 !.existing_names = @ \cup {ret.cluster_name},
                 !.cluster_summaries = Append(@, ret.cluster_name),
                 !.cluster_id = @ + 1]
    /\ pc' = IF ret.cluster_id + 1 = Len(ret.clusters)
             THEN "returned" ELSE "cluster_name"
    /\ UNCHANGED namesFrame

NextNames ==
    \/ SkipEmptyCluster
    \/ GenerateName
    \/ Disambiguate
    \/ AppendSummary

\* the thread running get_cluster_summary keeps running
SpecNames == InitNames /\ [][NextNames]_vars /\ WF_vars(NextNames)

(***************************************************************************)
(* SpecLedger: update_progress, complete_stage and reset_progress called   *)
(* in any order on the ledger, where the read of a call may fail although  *)
(* the file is intact: open(progress_file, 'r') or json.load raises (the   *)
(* descriptor table is full, or another thread is between the truncation   *)
(* and the end of its own json.dump), and the open(progress_file, 'w') of  *)
(* the same call succeeds.                                                 *)
(***************************************************************************)
\* update_progress whose get_progress found the file unreadable: the except
\* clause of get_progress hands the initial state to the body
UpdateProgressReadFails(stage, processed_n, total_n) ==
    /\ pc = "progress_manager"
    /\ ledger.kind = "ok"
    /\ ledger' = update_progress(BadFile("unreadable"), stage, processed_n,
                                 total_n, now)
    /\ ret' = [op |-> "update_progress", stage |-> stage,
               processed_count |-> processed_n, total_count |-> total_n,
               read_failed |-> TRUE]
    /\ UNCHANGED <<blobs, now, pmFrame>>

\* complete_stage whose get_progress found the file unreadable
CompleteStageReadFails(stage) ==
    /\ pc = "progress_manager"
    /\ ledger.kind = "ok"
    /\ ledger' = complete_stage(BadFile("unreadable"), stage, now)
    /\ ret' = [op |-> "complete_stage", stage |-> stage, read_failed |-> TRUE]
    /\ UNCHANGED <<blobs, now, pmFrame>>

NextLedger ==
    \/ \E stage \in PMStages, p \in Counts, t \in Counts :
          UpdateProgressCall(stage, p, t)
    \/ \E stage \in PMStages : CompleteStageCall(stage)
    \/ \E stage \in PMStages, p \in Counts, t \in Counts :
          UpdateProgressReadFails(stage, p, t)
    \/ \E stage \in PMStages : CompleteStageReadFails(stage)
    \/ ResetCall
    \/ Tick

SpecLedger == InitPM /\ [][NextLedger]_vars

(***************************************************************************)
(* SpecClear: the pipeline with process stops, and the script              *)
(* scripts/clear_clustering_data.py run from outside at any moment.        *)
(***************************************************************************)
\* clear_clustering_data.py:28-46: clear_cache_files removes the files of
\* data/intermediate named clustering_*; the ledger data/processing_progress
\* .json is not opened
ClearCacheScript ==
    /\ faults < MaxFaults
    /\ blobs' = clear_cache_files(blobs)
    /\ faults' = faults + 1
    /\ UNCHANGED <<memoryVars, loopVars, ledger, pc, now, ret, data_file,
                   verified, crashes, interrupted>>

NextClear ==
    \/ PipelineStep
    \/ ClusterStep
    \/ Crash
    \/ ClearCacheScript

SpecClear == InitPipeline /\ [][NextClear]_vars

(***************************************************************************)
(* Properties of cluster_servers.                                          *)
(***************************************************************************)
\* cluster_servers has returned normally
Returned == pc = "idle" /\ result \in {"computed", "restored"}
ReturnedComputed == pc = "idle" /\ result = "computed"

ServerIds == {servers[i].server_id : i \in DOMAIN servers}
GroupsOf(id) ==
    {k \in DOMAIN cluster_data : id \in Range(cluster_data[k].servers)}
Occurrences(seq, x) == Cardinality({n \in DOMAIN seq : seq[n] = x})
SameBatch(i, j) == (i - 1) \div batch_size = (j - 1) \div batch_size
Linked(i, j) == CombinedSimilar(servers[i], servers[j])

\* C1: whenever cluster_servers has returned (computed or restored), every
\* input record has a cluster id, is a member of exactly one group of
\* cluster_data (listed there once), and the groups' members are exactly
\* the input server ids.
C1_Partition ==
    Returned =>
        /\ \A i \in DOMAIN servers :
              /\ servers[i].cluster_id # None
              /\ Cardinality(GroupsOf(servers[i].server_id)) = 1
              /\ \A k \in GroupsOf(servers[i].server_id) :
                    Occurrences(cluster_data[k].servers, servers[i].server_id) = 1
        /\ UNION {Range(cluster_data[k].servers) : k \in DOMAIN cluster_data}
              = ServerIds

\* C2: when an uncached cluster_servers has returned, any records a, b, c
\* with combined similarity(a,b) >= threshold, similarity(b,c) >= threshold
\* and similarity(a,c) < threshold carry one cluster id, wherever they sit
\* in the input and in whatever order the batch futures completed.
C2_TransitiveClosure ==
    ReturnedComputed =>
        \A a, b, c \in DOMAIN servers :
            (Linked(a, b) /\ Linked(b, c) /\ ~Linked(a, c) /\ a # c)
                => /\ servers[a].cluster_id = servers[b].cluster_id
                   /\ servers[b].cluster_id = servers[c].cluster_id

\* C3: when cluster_servers has returned, two records with the same title
\* and the same description carry one cluster id.  (Stated for titles that
\* hold a vocabulary token: two zero title vectors have cosine 0 and are
\* never merged at all.)
C3_ReflexiveGrouping ==
    Returned =>
        \A i, j \in DOMAIN servers :
            (/\ servers[i].title = servers[j].title
             /\ servers[i].description = servers[j].description
             /\ servers[i].title # 0)
                => servers[i].cluster_id = servers[j].cluster_id

\* C4: when an uncached cluster_servers has returned, two records of one
\* Phase-2 batch whose combined similarity is >= similarity_threshold carry
\* one cluster id.
C4_SameBatchLinked ==
    ReturnedComputed =>
        \A i, j \in DOMAIN servers :
            (SameBatch(i, j) /\ Linked(i, j))
                => servers[i].cluster_id = servers[j].cluster_id

\* the server ids of the records that carry cluster id c, in list order
MembersOf(c) ==
    LET members == SelectSeq(servers, LAMBDA server : server.cluster_id = c)
    IN  [n \in DOMAIN members |-> members[n].server_id]

\* C19: when an uncached cluster_servers has returned, after any earlier
\* calls and cache deletions on the same instance, clusters and
\* cluster_data describe that run alone: every group is the group of a
\* cluster id some record carries, its members are the records carrying
\* that id, clusters maps each record to its id, and no server id is
\* listed in two groups.
C19_RebuiltFromScratch ==
    ReturnedComputed =>
        /\ DOMAIN cluster_data
              = {IntKey(servers[i].cluster_id) : i \in DOMAIN servers}
        /\ \A i \in DOMAIN servers :
              cluster_data[IntKey(servers[i].cluster_id)].servers
                 = MembersOf(servers[i].cluster_id)
        /\ DOMAIN clusters = ServerIds
        /\ \A i \in DOMAIN servers :
              clusters[servers[i].server_id] = servers[i].cluster_id
        /\ \A id \in ServerIds : Cardinality(GroupsOf(id)) <= 1

\* C5: a cluster_servers call that finds the 'clustering' blob intact does
\* no recomputation (no fit, no phase 1, no phase 2, no checkpoint write:
\* an uncached run is only ever under way while the blob is absent) and
\* leaves every record with the cluster id the run that wrote the blob
\* gave it.
C5_IdempotentResume ==
    /\ pc \in {"fit", "phase1", "phase2", "save"}
          => ~Loaded(load_intermediate_result(blobs, "clustering"))
    /\ (pc = "idle" /\ result = "restored")
          => /\ did = {}
             /\ \A i \in DOMAIN servers : servers[i].cluster_id = computed[i]
             /\ Loaded(blobs["clustering"])
                   => clusters = blobs["clustering"].data.clusters

\* C5 witness: a restarted process has restored an assignment in which two
\* records share a cluster and two do not
C5_Witness ==
    /\ pc = "idle" /\ result = "restored"
    /\ Loaded(blobs["clustering"])
    /\ \E i, j \in DOMAIN servers :
          i # j /\ servers[i].cluster_id = servers[j].cluster_id
    /\ \E i, j \in DOMAIN servers :
          servers[i].cluster_id # servers[j].cluster_id

(***************************************************************************)
(* Properties of the ProgressManager.                                      *)
(***************************************************************************)

\* C9: get_progress never raises; on a ledger file that is absent,
\* unreadable, unparseable or without the completed_stages field it returns
\* the initial state (on a readable ledger, its content), and the call
\* changes neither the ledger nor any blob.
C9_GetProgressNeverRaises ==
    [][ret'.op = "get_progress" =>
          /\ ~ret'.raised
          /\ ledger.kind # "ok" =>
                /\ ret'.value.current_stage = "None"
                /\ ret'.value.completed_stages = <<>>
                /\ ret'.value.processed_count = 0
                /\ ret'.value.total_count = 0
                /\ ret'.value.last_updated = None
          /\ ledger.kind = "ok" => ret'.value = ledger.data
          /\ ledger' = ledger
          /\ blobs' = blobs]_vars

C9_Witness ==
    /\ ret.op = "get_progress"
    /\ ledger.kind = "nofield"
    /\ ~ret.raised
    /\ ret.value = InitialProgress
    /\ \E s \in PMStages : blobs[s].kind = "ok"

\* C10: update_progress(stage, processed, total) leaves the persisted ledger
\* unchanged when stage is in its completed_stages; otherwise the ledger it
\* writes has current_stage, processed_count and total_count set to the
\* arguments and the completed_stages that were read. No blob changes.
C10_UpdateProgressFrame ==
    [][ret'.op = "update_progress" =>
          LET before == IF ledger.kind = "ok" THEN ledger.data
                        ELSE InitialProgress
          IN  /\ blobs' = blobs
              /\ IF ret'.stage \in Range(before.completed_stages)
                 THEN ledger' = ledger
                 ELSE /\ ledger'.kind = "ok"
                      /\ ledger'.data.current_stage = ret'.stage
                      /\ ledger'.data.processed_count = ret'.processed_count
                      /\ ledger'.data.total_count = ret'.total_count
                      /\ ledger'.data.completed_stages =
                            before.completed_stages]_vars

C10_Witness ==
    /\ ret.op = "update_progress"
    /\ ledger.kind = "ok"
    /\ ret.stage \in Range(ledger.data.completed_stages)
    /\ ledger.data.current_stage # ret.stage
    /\ ledger.data.processed_count # ret.processed_count

\* C11: a complete_stage(s) call on a stage not yet completed writes a
\* ledger in which s occurs exactly once and current_stage is null; a call
\* on a completed stage, in particular a second complete_stage(s) right
\* after the first, leaves the ledger unchanged; and after any call of the
\* ProgressManager no stage occurs twice in the persisted completed_stages.
C11_CompleteStageIdempotent ==
    [][/\ ret'.op = "complete_stage" =>
             LET before == IF ledger.kind = "ok" THEN ledger.data
                           ELSE InitialProgress
             IN  /\ ledger'.kind = "ok"
                 /\ Occurrences(ledger'.data.completed_stages, ret'.stage) = 1
                 /\ IF ret'.stage \in Range(before.completed_stages)
                    THEN ledger' = ledger
                    ELSE ledger'.data.current_stage = "None"
                 /\ (ret.op = "complete_stage" /\ ret.stage = ret'.stage)
                       => (ledger' = ledger
                           /\ ledger'.data.current_stage = "None")
       /\ ledger'.kind = "ok" =>
             \A st \in Range(ledger'.data.completed_stages) :
                 Occurrences(ledger'.data.completed_stages, st) = 1]_vars

C11_Witness ==
    /\ ret.op = "complete_stage"
    /\ ledger.kind = "ok"
    /\ Range(ledger.data.completed_stages) = PMStages
    /\ Len(ledger.data.completed_stages) = Cardinality(PMStages)
    /\ ledger.data.current_stage = "None"

\* C12: after save_intermediate_result(stage, payload) the blob of the
\* stage loads as a value equal to payload and the blobs of the other
\* stages are as before; a blob changes only by a save for its stage, a
\* reset or damage from outside; load_intermediate_result returns absent
\* when the blob is missing or does not parse, and changes no file.
C12_BlobRoundTrip ==
    [][/\ ret'.op = "save_intermediate_result" =>
             /\ Loaded(load_intermediate_result(blobs', ret'.stage))
             /\ load_intermediate_result(blobs', ret'.stage).data
                   = ret'.payload
             /\ \A s \in BlobNames \ {ret'.stage} : blobs'[s] = blobs[s]
       /\ ret'.op = "load_intermediate_result" =>
             /\ ret'.value = IF blobs[ret'.stage].kind = "ok"
                             THEN blobs[ret'.stage] ELSE NoFile
             /\ blobs' = blobs
             /\ ledger' = ledger
       /\ \A s \in BlobNames :
             blobs'[s] # blobs[s] =>
                \/ ret'.op = "save_intermediate_result" /\ ret'.stage = s
                \/ ret'.op = "reset_progress"
                \/ ret'.op = "none"]_vars

\* C13: verify_cache_integrity returns true exactly when every stage listed
\* in the ledger's completed_stages has a blob file that exists and parses;
\* it returns true when the ledger file is missing or cannot be read as a
\* ledger, and the call changes neither the ledger nor any blob.
C13_VerifyIff ==
    [][ret'.op = "verify_cache_integrity" =>
          LET listed == IF ledger.kind = "ok"
                        THEN Range(ledger.data.completed_stages)
                        ELSE {}
          IN  /\ ret'.value = (\A s \in listed : blobs[s].kind = "ok")
              /\ ledger.kind # "ok" => ret'.value
              /\ (ledger.kind = "ok" /\ ledger.data.completed_stages = <<>>)
                    => ret'.value
              /\ ledger' = ledger
              /\ blobs' = blobs]_vars

C13_Witness ==
    /\ ret.op = "verify_cache_integrity"
    /\ ~ret.value
    /\ ledger.kind = "ok"
    /\ Len(ledger.data.completed_stages) = 2
    /\ blobs[ledger.data.completed_stages[1]].kind = "ok"
    /\ blobs[ledger.data.completed_stages[2]].kind \in {"absent", "corrupt"}

\* C14: after reset_progress returns, whatever the ledger and the blobs
\* were, get_progress returns the initial state (no completed stage, no
\* current stage) and load_intermediate_result returns absent for every
\* blob name, the blobs that are no ledger stage included.
C14_ResetClearsAll ==
    [][ret'.op = "reset_progress" =>
          /\ get_progress(ledger') = [raised |-> FALSE, value |-> InitialProgress]
          /\ get_progress(ledger').value.completed_stages = <<>>
          /\ get_progress(ledger').value.current_stage = "None"
          /\ \A s \in BlobNames :
                load_intermediate_result(blobs', s) = NoFile]_vars

C14_Witness ==
    /\ ret.op = "reset_progress"
    /\ {"summaries", "clustering"} \subseteq ret.removed
    /\ ledger.kind = "absent"
    /\ \A s \in BlobNames : blobs[s].kind = "absent"

\* C15: a list returned by get_similar_servers(server_id, servers, top_n)
\* has at most top_n entries, in order of non-increasing similarity_score,
\* none of them the target server and no server twice.
C15_SimilarRanking ==
    (ret.op = "get_similar_servers" /\ ret.at = "returned") =>
        /\ Len(ret.value) <= ret.top_n
        /\ \A i, j \in DOMAIN ret.value :
              i < j => ret.value[i].similarity_score
                          >= ret.value[j].similarity_score
        /\ \A i \in DOMAIN ret.value : ret.value[i].server_id # ret.server_id
        /\ \A i, j \in DOMAIN ret.value :
              i # j => ret.value[i].server_id # ret.value[j].server_id

\* the cluster id a returned entry's record carries
ClusterIdOf(id) == servers[IndexOf(servers, id)].cluster_id
\* the records other than the target that carry the target's cluster id
ClusterMates(id) ==
    {i \in DOMAIN servers :
        /\ servers[i].server_id # id
        /\ servers[i].cluster_id = ClusterIdOf(id)}

\* what a returned list is drawn from, stated on the records as the call
\* left them
DrawnFromCluster ==
    (ret.op = "get_similar_servers" /\ ret.at = "returned") =>
        LET mates == ClusterMates(ret.server_id)
            others == {i \in DOMAIN servers :
                          servers[i].server_id # ret.server_id}
            drawn == IF mates # {} THEN mates ELSE others
            size == IF ret.top_n < Cardinality(drawn)
                    THEN ret.top_n ELSE Cardinality(drawn)
        IN  /\ mates # {} =>
                  \A k \in DOMAIN ret.value :
                      ClusterIdOf(ret.value[k].server_id)
                         = ClusterIdOf(ret.server_id)
            /\ (\E k \in DOMAIN ret.value :
                    ClusterIdOf(ret.value[k].server_id)
                       # ClusterIdOf(ret.server_id))
                  => mates = {}
            /\ \A k \in DOMAIN ret.value :
                  \E i \in drawn : servers[i].server_id = ret.value[k].server_id
            /\ Len(ret.value) = size

\* C16: when the target's cluster has another member, get_similar_servers
\* ranks that cluster's members only: every returned server has the
\* target's cluster id and the list holds the top_n of them; it ranks all
\* the other servers only when the target's cluster is a singleton.
C16_ClusterPreference ==
    [][ret' # ret => DrawnFromCluster']_vars

C16_Witness ==
    /\ ret.op = "get_similar_servers"
    /\ ret.at = "returned"
    /\ ret.top_n = top_n_default
    /\ Cardinality(ClusterMates(ret.server_id)) = 1
    /\ Len(ret.value) = 1
    /\ Len(servers) > 2
    /\ ClusterIdOf(ret.value[1].server_id) = ClusterIdOf(ret.server_id)
    /\ \E i \in DOMAIN servers :
          /\ servers[i].cluster_id # ClusterIdOf(ret.server_id)
          /\ combined_similarity(VectorizerData(servers),
                                 servers[IndexOf(servers, ret.server_id)],
                                 servers[i]) > 0

\* C17: get_similar_servers with a server_id that no record of the list
\* carries ends at once with the not-found error: cluster_servers is not
\* started, no vectorizer is fitted or restored, no file is written, and
\* clusters, cluster_data, the cluster ids of the records, the ledger and
\* the blobs are what they were.
C17_NotFoundFirst ==
    [][(/\ ret' # ret
        /\ ret'.op = "get_similar_servers"
        /\ \A i \in DOMAIN servers : servers[i].server_id # ret'.server_id)
          => /\ ret'.at = "raised"
             /\ ret'.error = "not_found"
             /\ pc' = pc
             /\ UNCHANGED <<servers, clusters, cluster_data, next_cluster_id,
                            fitted, clusters_map, did, ledger, blobs>>]_vars

C17_Witness ==
    /\ ret.op = "get_similar_servers"
    /\ ret.at = "raised"
    /\ ret.error = "not_found"
    /\ \A i \in DOMAIN servers : servers[i].server_id # ret.server_id
    /\ \E i \in DOMAIN servers : servers[i].cluster_id = None
    /\ ~FitRaises(servers)
    /\ fitted = {}
    /\ pc = "idle"
    /\ \A s \in BlobNames : blobs[s].kind = "absent"

(***************************************************************************)
(* Properties of the pipeline under crashes and damaged blobs.             *)
(***************************************************************************)

\* C6: when the process starts while the blob of a stage listed in
\* completed_stages is missing or does not parse, verify_cache_integrity
\* returns false and reset_progress follows; whenever verification failed,
\* the ledger has no completed stage when the startup reaches its gate and
\* when load_data is about to run.
C6_IntegrityGate ==
    [][/\ (/\ pc = "down"
           /\ pc' # "down"
           /\ \E s \in CompletedStages(ledger) : blobs[s].kind # "ok")
          => (~verified' /\ pc' = "reset_progress")
       /\ (~verified' /\ pc' \in {"startup_gate", "load_data"})
          => get_progress(ledger').value.completed_stages = <<>>]_vars

C6_Witness ==
    /\ pc = "startup_gate"
    /\ ~verified
    /\ faults > 0
    /\ crashes > 0
    /\ get_progress(ledger).value.completed_stages = <<>>
    /\ \E s \in BlobNames : blobs[s].kind = "absent"

\* C7: with crashes between any two file writes of load_data, process_data
\* and cluster_servers (and no file damaged from outside, or the damage
\* already met by the startup reset), every stage listed in the ledger's
\* completed_stages has a blob that exists and parses.
C7_CheckpointInvariant ==
    (faults = 0 \/ pc \notin {"down", "reset_progress"}) =>
        \A s \in CompletedStages(ledger) : blobs[s].kind = "ok"

C7_Witness ==
    /\ crashes > 0
    /\ faults = 0
    /\ pc = "down"
    /\ CompletedStages(ledger) =
          {"data_loading", "metrics_calculation", "clustering"}
    /\ \A s \in CompletedStages(ledger) : blobs[s].kind = "ok"

\* the process is running again after a crash that cut cluster_servers
\* short before the 'clustering' blob was saved, and no file was damaged
Recovering == interrupted /\ faults = 0

RecoveredRun ==
    /\ result = "computed"
    /\ {"fit", "phase1", "phase2", "save_clustering", "complete_stage"}
          \subseteq did
    /\ Loaded(blobs["clustering"])
    /\ "clustering" \in CompletedStages(ledger)

\* C8 as stated, for every list of records: after a crash inside
\* cluster_servers before the 'clustering' blob is saved, the restart
\* passes verification and cluster_servers never raises and returns having
\* run the fit, Phase 1, Phase 2, the save and complete_stage.
C8_AsStated ==
    Recovering =>
        /\ pc \notin {"reset_progress", "reset_blobs"}
        /\ pc # "down" => verified
        /\ result # "raised"
        /\ pc = "idle" => RecoveredRun

\* C8: after a crash inside cluster_servers before the 'clustering' blob
\* is saved, the restart passes verification; cluster_servers raises only
\* when the vectorizers cannot be fitted on the records, and otherwise it
\* returns having run the fit, Phase 1, Phase 2, the save of the
\* 'clustering' blob and complete_stage; and it does return.
C8_CrashRecoverable ==
    /\ [](Recovering =>
            /\ pc \notin {"reset_progress", "reset_blobs"}
            /\ pc # "down" => verified
            /\ result = "raised" => FitRaises(servers)
            /\ (pc = "idle" /\ ~FitRaises(servers)) => RecoveredRun)
    /\ (/\ Recovering
        /\ pc = "down"
        /\ crashes = MaxCrashes
        /\ ~FitRaises(blobs["metrics_calculation"].data))
          ~> (pc = "idle" /\ RecoveredRun)

C8_Witness ==
    /\ Recovering
    /\ pc = "idle"
    /\ RecoveredRun
    /\ Len(servers) >= 2
    /\ \E i, j \in DOMAIN servers : servers[i].cluster_id # servers[j].cluster_id


\* the list process_data returns when nothing interrupts it: the metrics
\* of the raw records whose processing does not raise, in file order
UninterruptedRun(raw) ==
    LET kept == SelectSeq(raw, LAMBDA server_data : server_data.valid)
    IN  [k \in DOMAIN kept |-> Metrics(kept[k])]

\* C18: whatever the crash points and whichever raw records fail and are
\* skipped, the list process_data returns after the restarts is the list
\* an uninterrupted run returns: the same records, each once, in the same
\* order.
C18_ResumeEquivalence ==
    pc = "cluster_servers" => servers = UninterruptedRun(data_file)


\* C20: when Phase 1 has ended and no Phase-2 result has been applied, any
\* two records whose title cosine similarity is >= similarity_threshold
\* have the same entry in clusters_map, whatever the order of the records.
C20_Phase1Union ==
    (pc = "phase2" /\ futures = BatchStarts(servers)) =>
        \A i, j \in DOMAIN servers :
            TitleSim(servers[i].title, servers[j].title) >= similarity_threshold
                => clusters_map[i] = clusters_map[j]


\* the ended futures the coordinator has not collected yet
Pending == {future \in completed : future.batch \in futures}

\* the orders in which as_completed can yield the futures of F
Orders(F) ==
    {o \in [1..Cardinality(F) -> F] :
        \A m, n \in DOMAIN o : m # n => o[m] # o[n]}

\* clusters_map once the coordinator has collected the futures of order
RECURSIVE CollectInOrder(_, _, _)
CollectInOrder(S, map, order) ==
    IF order = <<>> THEN map
    ELSE CollectInOrder(S, ApplyPairs(S, map, FutureResult(S, Head(order))),
                        Tail(order))

\* self.clusters as step 6 writes it from clusters_map
FinalClusters(map) == UpdateResults(servers, map, 1, clusters, cluster_data).clusters

\* C27: once every Phase-2 task has ended, so that the result of every
\* batch is fixed, the server_id -> cluster_id map cluster_servers ends
\* with is the same for every order in which the coordinator collects the
\* futures.
C27_OrderIndependent ==
    (pc = "phase2" /\ \A b \in futures : \E future \in completed : future.batch = b)
        => \A o1, o2 \in Orders(Pending) :
              FinalClusters(CollectInOrder(servers, clusters_map, o1))
                = FinalClusters(CollectInOrder(servers, clusters_map, o2))


\* C21: during Phase 2 a step in which a batch task ends writes none of
\* clusters_map, clusters, cluster_data, next_cluster_id and the records'
\* cluster_id; clusters_map changes only in a step in which the coordinator
\* takes a future off the pending ones, and that future had ended before
\* the step.
C21_CoordinatorOnly ==
    [][pc = "phase2" =>
          /\ completed' # completed =>
                UNCHANGED <<clusters_map, clusters, cluster_data,
                            next_cluster_id, servers>>
          /\ (clusters_map' # clusters_map \/ futures' # futures) =>
                \E b \in futures :
                    /\ futures' = futures \ {b}
                    /\ \E future \in completed : future.batch = b]_vars

\* one batch has been collected while the ended task of another batch
\* holds pairs the coordinator has not applied yet
C21_Witness ==
    /\ pc = "phase2"
    /\ futures # BatchStarts(servers)
    /\ \E future \in Pending : FutureResult(servers, future) # <<>>


\* clusters_map as Phase 1 left it, from the records and the ids the run
\* has taken
Phase1Map ==
    LET r == InitialClustering(servers, 1, <<>>, 0)
    IN  [i \in DOMAIN servers |->
            r.clusters_map[i] + (next_cluster_id - r.next_cluster_id)]

\* the computation of some batch of the run raised
SomeBatchRaised == \E future \in completed : future.raised
\* the merges the batches whose computation did not raise ask for
AppliedPairs ==
    UNION {Range(calculate_batch_similarities(servers, future.batch)) :
             future \in {c \in completed : ~c.raised}}

\* C22: when the computation of some Phase-2 batches raises, the run does
\* not raise; once every future is collected clusters_map is Phase 1's map
\* with the pairs of exactly the batches that did not raise applied, batch
\* by batch; the run returns with a cluster id on every record, the
\* 'clustering' blob saved and the stage marked complete; and it does
\* return.
C22_FailedBatchAbsorbed ==
    /\ [](SomeBatchRaised =>
            /\ result # "raised"
            /\ (pc = "phase2" /\ futures = {}) =>
                  \E order \in Orders({c \in completed : ~c.raised}) :
                      clusters_map = CollectInOrder(servers, Phase1Map, order)
            /\ (pc = "idle" /\ result = "computed") =>
                  /\ \A i \in DOMAIN servers : servers[i].cluster_id # None
                  /\ {"phase2", "save_clustering", "complete_stage"} \subseteq did
                  /\ Loaded(blobs["clustering"])
                  /\ "clustering" \in CompletedStages(ledger))
    /\ (pc = "phase2" /\ SomeBatchRaised) ~> (pc = "idle" /\ result = "computed")

\* a run has returned in which the computation of one batch raised while
\* the pairs of another batch changed the map of Phase 1
C22_Witness ==
    /\ pc = "idle"
    /\ result = "computed"
    /\ SomeBatchRaised
    /\ AppliedPairs # {}
    /\ clusters_map # Phase1Map


\* C23: from the call of cluster_servers on records on which a vectorizer
\* fit raises (and no 'clustering' blob to restore from) to the moment the
\* error reaches the caller, no step changes clusters, cluster_data,
\* next_cluster_id, the records, the ledger or a blob, and the call ends
\* with the error.
C23_FitFailureRetainsNothing ==
    [][(/\ pc \in {"cluster_servers", "fit"}
        /\ FitRaises(servers)
        /\ ~Loaded(load_intermediate_result(blobs, "clustering")))
          => /\ UNCHANGED <<clusters, cluster_data, next_cluster_id, servers,
                            ledger, blobs>>
             /\ pc' \in {"fit", "idle"}
             /\ pc' = "idle" => result' = "raised"]_vars

\* the description fit raised after the title vectorizer had been fitted
C23_Witness ==
    /\ pc = "idle"
    /\ result = "raised"
    /\ "title" \in fitted
    /\ \E i, j \in DOMAIN servers : servers[i].title # servers[j].title


\* the groups a list of summaries shows: the number of the cluster id
\* (whether the key is an int or its JSON string), the entity name and the
\* members
ShownGroups(summaries) ==
    { [cluster_id |-> s.cluster_id[2], entity_name |-> s.entity_name,
       servers |-> s.servers] : s \in summaries }

\* C24: the summaries get_cluster_summary returns show exactly the groups
\* of the instance's cluster_data at the time of the call, with their
\* members among the records.
C24_SummaryOfCurrentClusters ==
    ret.op = "get_cluster_summary" =>
        ShownGroups(ret.summaries)
          = ShownGroups(ClusterSummaries(servers, cluster_data))


\* the members of the cluster that list the tag, in some casing
MembersWithTag(members, tag) ==
    {i \in DOMAIN members : \E n \in DOMAIN members[i] : Lower(members[i][n]) = tag}

\* C25: the common tags of a cluster are exactly the case-folded tags that
\* at least half of the members list, a member counting once per tag.
C25_CommonTags ==
    ret.op = "common_tags" =>
        ret.common_tags =
            {tag \in {Lower(t) : t \in Tags} :
                /\ MembersWithTag(ret.members, tag) # {}
                /\ 2 * Cardinality(MembersWithTag(ret.members, tag))
                      >= Len(ret.members)}


\* C26: get_cluster_summary returns for every list of clusters, and the
\* cluster names of the summaries it returns are pairwise distinct.
C26_NamesUniqueAndLoopEnds ==
    /\ [](pc = "returned" =>
            \A m, n \in DOMAIN ret.cluster_summaries :
                ret.cluster_summaries[m] = ret.cluster_summaries[n] => m = n)
    /\ <>(pc = "returned" /\ ret.cluster_id = Len(ret.clusters))

\* a cluster went through the tool count and the feature count and was
\* named by its group index
C26_Witness ==
    /\ pc = "returned"
    /\ \E n \in DOMAIN ret.cluster_summaries :
          ret.cluster_summaries[n].suffix[1] = "Group"


\* the stages recorded in the ledger file as it is on disk
PersistedStages(l) ==
    IF l.kind = "ok" THEN Range(l.data.completed_stages) ELSE {}

\* C28: a stage recorded in the persisted completed_stages stays recorded
\* across every update_progress and complete_stage call, a call whose read
\* of the ledger fails included; only reset_progress removes it.
C28_CompletedStagesKept ==
    [][ret'.op # "reset_progress" =>
          PersistedStages(ledger) \subseteq PersistedStages(ledger')]_vars


\* C29: clear_cache_files leaves no stage in completed_stages without its
\* blob: run on a cache that passes verify_cache_integrity, it leaves a
\* cache that passes it, so the next startup does not reset the progress.
C29_ClearKeepsCacheConsistent ==
    [][(faults' # faults /\ verify_cache_integrity(ledger, blobs)) =>
          /\ \A stage \in CompletedStages(ledger') :
                blobs'[stage].kind # "absent"
          /\ verify_cache_integrity(ledger', blobs')]_vars


\* C30: when load_data, process_data and cluster_servers have returned
\* without error, completed_stages holds every stage of STAGES, so the test
\* of startup_event, len(completed_stages) == len(STAGES), is true at the
\* next start.
C30_FullRunCompletesAllStages ==
    (pc = "idle" /\ result = "computed") =>
        /\ CompletedStages(ledger) = Range(STAGES)
        /\ Len(get_progress(ledger).value.completed_stages) = Len(STAGES)

=============================================================================
